---- MODULE Spec2Model ----
(***************************************************************************)
(* Sales-orders frontend: the order validator (orderSchema), the order     *)
(* form's totals (orderTotals) and the order form's save / confirm         *)
(* handlers talking to the persistence collaborator.                       *)
(***************************************************************************)
EXTENDS Integers, Sequences, FiniteSets, TLC

(***************************************************************************)
(* Bounds of the model.                                                    *)
(***************************************************************************)
\* Longest list of lines a validated payload carries.
MaxLines == 3
\* Longest list of lines whose fields take every combination of inputs.
MaxFieldLines == 2
\* Longest list of lines the order form holds.
MaxFormLines == 1
\* Most listOrders calls in flight when the cancelled filter is toggled.
MaxListRequests == 1
\* Longest list of lines the totals are computed over.
MaxTotalLines == 2

(***************************************************************************)
(* JavaScript values.  A value is a record [t, s, n, d]: t is the kind, s  *)
(* the text of a non-numeric string, n/d the exact value of a finite       *)
(* number (d > 0).                                                         *)
(***************************************************************************)
Undefined == [t |-> "undefined", s |-> "", n |-> 0, d |-> 1]
Str(text) == [t |-> "string", s |-> text, n |-> 0, d |-> 1]
NumStr(num, den) == [t |-> "numeric-string", s |-> "", n |-> num, d |-> den]
Num(num, den) == [t |-> "number", s |-> "", n |-> num, d |-> den]
NaN == [t |-> "NaN", s |-> "", n |-> 0, d |-> 1]
PosInf == [t |-> "Infinity", s |-> "", n |-> 1, d |-> 1]
NegInf == [t |-> "-Infinity", s |-> "", n |-> -1, d |-> 1]

\* Number(v): undefined and non-numeric text give NaN, "" gives 0.
ToNumber(v) ==
  CASE v.t = "undefined" -> NaN
    [] v.t = "string" -> IF v.s = "" THEN Num(0, 1) ELSE NaN
    [] v.t = "numeric-string" -> Num(v.n, v.d)
    [] OTHER -> v

\* Truthiness: undefined, "", 0 and NaN are falsy; the string "0" is truthy.
Truthy(v) ==
  CASE v.t = "undefined" -> FALSE
    [] v.t = "string" -> v.s # ""
    [] v.t = "numeric-string" -> TRUE
    [] v.t = "number" -> v.n # 0
    [] v.t = "NaN" -> FALSE
    [] OTHER -> TRUE

\* v || 0
OrZero(v) == IF Truthy(v) THEN v ELSE Num(0, 1)

IsNaN(x) == x.t = "NaN"
IsFinite(x) == x.t = "number"
\* -1, 0 or 1 for a number that is not NaN.
Sign(x) == IF x.n > 0 THEN 1 ELSE IF x.n < 0 THEN -1 ELSE 0
Signed(k) == IF k > 0 THEN PosInf ELSE NegInf

RECURSIVE Gcd(_, _)
Gcd(a, b) == IF b = 0 THEN a ELSE Gcd(b, a % b)
Abs(k) == IF k < 0 THEN 0 - k ELSE k
\* The finite number num/den in lowest terms: one value has one record.
Ratio(num, den) ==
  LET g == Gcd(Abs(num), den) IN Num(num \div g, den \div g)

\* a * b of IEEE numbers (finite values are exact: no rounding is modelled).
Mul(a, b) ==
  IF IsNaN(a) \/ IsNaN(b) THEN NaN
  ELSE IF IsFinite(a) /\ IsFinite(b) THEN Ratio(a.n * b.n, a.d * b.d)
  ELSE IF Sign(a) = 0 \/ Sign(b) = 0 THEN NaN
  ELSE Signed(Sign(a) * Sign(b))

\* a + b
Add(a, b) ==
  IF IsNaN(a) \/ IsNaN(b) THEN NaN
  ELSE IF IsFinite(a) /\ IsFinite(b) THEN Ratio(a.n * b.d + b.n * a.d, a.d * b.d)
  ELSE IF IsFinite(a) THEN b
  ELSE IF IsFinite(b) THEN a
  ELSE IF a.t = b.t THEN a ELSE NaN

Neg(a) ==
  CASE a.t = "number" -> Num(0 - a.n, a.d)
    [] a.t = "Infinity" -> NegInf
    [] a.t = "-Infinity" -> PosInf
    [] OTHER -> NaN

\* a - b
Sub(a, b) == Add(a, Neg(b))

\* a / k for a finite k > 0
DivBy(a, k) == IF IsFinite(a) THEN Ratio(a.n, a.d * k) ELSE a

\* a < b ; every comparison with NaN is false.
Lt(a, b) ==
  IF IsNaN(a) \/ IsNaN(b) THEN FALSE
  ELSE IF IsFinite(a) /\ IsFinite(b) THEN a.n * b.d < b.n * a.d
  ELSE IF a.t = b.t THEN FALSE
  ELSE a.t = "-Infinity" \/ b.t = "Infinity"

\* a === b of two numbers
NumEq(a, b) ==
  IF IsNaN(a) \/ IsNaN(b) THEN FALSE
  ELSE IF IsFinite(a) /\ IsFinite(b) THEN a.n * b.d = b.n * a.d
  ELSE a.t = b.t

Le(a, b) == Lt(a, b) \/ NumEq(a, b)

\* Number.isInteger
IsInteger(x) == IsFinite(x) /\ x.n % x.d = 0

(***************************************************************************)
(* Dates.  new Date(text).getTime() for the date texts of the model: the   *)
(* day count for a calendar date, NaN for any other text.                  *)
(***************************************************************************)
NoString == "<undefined>"

DateGetTime(text) ==
  CASE text = "2024-01-05" -> Num(5, 1)
    [] text = "2024-01-10" -> Num(10, 1)
    [] OTHER -> NaN

(***************************************************************************)
(* orderSchema.  A parse result is [status, issues]: status is zod's       *)
(* valid / dirty / aborted, issues the violations found so far.  An issue  *)
(* is [root, idx, field, code, check]: the path root ("customerId",        *)
(* "lines", ...), the 0-based line index (-1 outside lines), the line      *)
(* field ("" for none), zod's issue code and the rule that raised it.      *)
(***************************************************************************)
Issue(root, idx, field, code, check) ==
  [root |-> root, idx |-> idx, field |-> field, code |-> code, check |-> check]

Valid == [status |-> "valid", issues |-> <<>>]
Dirty(issues) == [status |-> IF issues = <<>> THEN "valid" ELSE "dirty", issues |-> issues]
Aborted(issues) == [status |-> "aborted", issues |-> issues]

\* ParseStatus.mergeObjectSync / mergeArray: every member is parsed and its
\* issues kept; one aborted member aborts the whole.
MergeStatus(a, b) ==
  IF a = "aborted" \/ b = "aborted" THEN "aborted"
  ELSE IF a = "dirty" \/ b = "dirty" THEN "dirty"
  ELSE "valid"

Merge(r1, r2) ==
  [status |-> MergeStatus(r1.status, r2.status), issues |-> r1.issues \o r2.issues]

\* Mutant: the string schema without its min(1) check.
StringMin1_AcceptsEmpty(v, root, idx, field) ==
  IF v = NoString THEN Aborted(<<Issue(root, idx, field, "invalid_type", "type")>>)
  ELSE Valid

\* z.string().min(1, ...) at the path (root, idx, field)
StringMin1(v, root, idx, field) ==
  IF v = NoString THEN Aborted(<<Issue(root, idx, field, "invalid_type", "type")>>)
  ELSE IF v = "" THEN Dirty(<<Issue(root, idx, field, "too_small", "min")>>)
  ELSE Valid

\* dateString: the refinement runs unless the string schema aborted.
dateString(v, root) ==
  LET inner == StringMin1(v, root, -1, "")
  IN IF inner.status = "aborted" THEN inner
     ELSE IF IsNaN(DateGetTime(v))
          THEN Dirty(inner.issues \o <<Issue(root, -1, "", "custom", "refine.date")>>)
          ELSE inner

\* z.coerce.number(...).int().min(1, ...): Number(input), the type check that
\* rejects NaN and aborts, then every check of the chain.
quantitySchema(v, idx) ==
  LET x == ToNumber(v)
  IN IF IsNaN(x) THEN Aborted(<<Issue("lines", idx, "quantity", "invalid_type", "type")>>)
     ELSE Dirty((IF IsInteger(x) THEN <<>>
                 ELSE <<Issue("lines", idx, "quantity", "invalid_type", "int")>>)
                \o (IF Lt(x, Num(1, 1))
                    THEN <<Issue("lines", idx, "quantity", "too_small", "min")>>
                    ELSE <<>>))

\* z.coerce.number(...).gt(0, ...)
unitPriceSchema(v, idx) ==
  LET x == ToNumber(v)
  IN IF IsNaN(x) THEN Aborted(<<Issue("lines", idx, "unitPrice", "invalid_type", "type")>>)
     ELSE Dirty(IF Lt(Num(0, 1), x) THEN <<>>
                ELSE <<Issue("lines", idx, "unitPrice", "too_small", "gt")>>)

\* Mutant: the discount's upper bound excludes 100.
discountPctSchema_ExclusiveMax(v, idx) ==
  LET x == ToNumber(v)
  IN IF IsNaN(x) THEN Aborted(<<Issue("lines", idx, "discountPct", "invalid_type", "type")>>)
     ELSE Dirty((IF Lt(x, Num(0, 1))
                 THEN <<Issue("lines", idx, "discountPct", "too_small", "min")>>
                 ELSE <<>>)
                \o (IF Le(Num(100, 1), x)
                    THEN <<Issue("lines", idx, "discountPct", "too_big", "max")>>
                    ELSE <<>>))

\* z.coerce.number(...).min(0, ...).max(100, ...)
discountPctSchema(v, idx) ==
  LET x == ToNumber(v)
  IN IF IsNaN(x) THEN Aborted(<<Issue("lines", idx, "discountPct", "invalid_type", "type")>>)
     ELSE Dirty((IF Lt(x, Num(0, 1))
                 THEN <<Issue("lines", idx, "discountPct", "too_small", "min")>>
                 ELSE <<>>)
                \o (IF Lt(Num(100, 1), x)
                    THEN <<Issue("lines", idx, "discountPct", "too_big", "max")>>
                    ELSE <<>>))

\* One element of the lines array; idx is its 0-based index.
lineSchema(line, idx) ==
  Merge(Merge(StringMin1(line.productId, "lines", idx, "productId"),
              quantitySchema(line.quantity, idx)),
        Merge(unitPriceSchema(line.unitPrice, idx),
              discountPctSchema(line.discountPct, idx)))

RECURSIVE linesElements(_, _)
linesElements(lines, k) ==
  IF k > Len(lines) THEN Valid
  ELSE Merge(lineSchema(lines[k], k - 1), linesElements(lines, k + 1))

\* z.array(...).min(1, ...): the length check, then every element.
linesSchema(lines) ==
  Merge(IF Len(lines) < 1
        THEN Dirty(<<Issue("lines", -1, "", "too_small", "min")>>)
        ELSE Valid,
        linesElements(lines, 1))

\* The z.object of orderSchema.
objectSchema(p) ==
  Merge(Merge(StringMin1(p.customerId, "customerId", -1, ""),
              dateString(p.orderDate, "orderDate")),
        Merge(dateString(p.deliveryDate, "deliveryDate"),
              linesSchema(p.lines)))

\* Mutant: the ordering violation is attached to orderDate.
refineDateOrder_OnOrderDate(p) ==
  LET deliveryDate == DateGetTime(p.deliveryDate)
      orderDate == DateGetTime(p.orderDate)
  IN IF ~IsNaN(deliveryDate) /\ ~IsNaN(orderDate) /\ Lt(deliveryDate, orderDate)
     THEN <<Issue("orderDate", -1, "", "custom", "superRefine.dateOrder")>>
     ELSE <<>>

\* superRefine, first part: the date ordering.
refineDateOrder(p) ==
  LET deliveryDate == DateGetTime(p.deliveryDate)
      orderDate == DateGetTime(p.orderDate)
  IN IF ~IsNaN(deliveryDate) /\ ~IsNaN(orderDate) /\ Lt(deliveryDate, orderDate)
     THEN <<Issue("deliveryDate", -1, "", "custom", "superRefine.dateOrder")>>
     ELSE <<>>

\* superRefine, second part: the duplicate products, with the seen set.
RECURSIVE refineDuplicates(_, _, _)
refineDuplicates(lines, k, seen) ==
  IF k > Len(lines) THEN <<>>
  ELSE IF lines[k].productId \in seen
       THEN <<Issue("lines", k - 1, "productId", "custom", "superRefine.duplicate")>>
            \o refineDuplicates(lines, k + 1, seen)
       ELSE refineDuplicates(lines, k + 1, seen \cup {lines[k].productId})

superRefine(p) == refineDateOrder(p) \o refineDuplicates(p.lines, 1, {})

\* ZodEffects over the object: an aborted object is returned as it is and
\* the refinement is not run; otherwise the refinement adds its issues.
orderSchema(p) ==
  LET inner == objectSchema(p)
  IN IF inner.status = "aborted" THEN inner
     ELSE Dirty(inner.issues \o superRefine(p))

\* validate(payload): the list of violations.
Validate(p) == orderSchema(p).issues

(***************************************************************************)
(* orderTotals: the line totals and the order total of the form.           *)
(***************************************************************************)
\* Mutant: the line total without the Number.isFinite guard.
lineTotalOf_NoFiniteGuard(line) ==
  LET qty == ToNumber(OrZero(line.quantity))
      price == ToNumber(OrZero(line.unitPrice))
      discount == DivBy(ToNumber(OrZero(line.discountPct)), 100)
  IN Mul(Mul(qty, price), Sub(Num(1, 1), discount))

\* One element of totals: qty * price * (1 - discount), 0 when not finite.
lineTotalOf(line) ==
  LET qty == ToNumber(OrZero(line.quantity))
      price == ToNumber(OrZero(line.unitPrice))
      discount == DivBy(ToNumber(OrZero(line.discountPct)), 100)
      total == Mul(Mul(qty, price), Sub(Num(1, 1), discount))
  IN IF IsFinite(total) THEN total ELSE Num(0, 1)

\* x.toFixed(2) of a finite x, as a count of cents: the nearest, the larger of
\* two that are equally near.
toFixed2(x) ==
  LET cents == (2 * 100 * Abs(x.n) + x.d) \div (2 * x.d)
  IN IF x.n < 0 THEN 0 - cents ELSE cents

\* Mutant: the sum of the line totals as displayed, each rounded to cents.
RECURSIVE reduceSum_Rounded(_, _, _)
reduceSum_Rounded(totals, k, acc) ==
  IF k > Len(totals) THEN acc
  ELSE reduceSum_Rounded(totals, k + 1, Add(acc, Ratio(toFixed2(totals[k]), 100)))

\* totals.reduce((acc, v) => acc + v, 0)
RECURSIVE reduceSum(_, _, _)
reduceSum(totals, k, acc) ==
  IF k > Len(totals) THEN acc ELSE reduceSum(totals, k + 1, Add(acc, totals[k]))

orderTotals(lines) ==
  LET totals == [k \in 1..Len(lines) |-> lineTotalOf(lines[k])]
  IN [lineTotals |-> totals, orderTotal |-> reduceSum(totals, 1, Num(0, 1))]

\* computeOrderTotals of the persistence collaborator, whose response carries
\* orderSubtotal, orderDiscountTotal and orderTotal.
RECURSIVE subtotalOf(_, _)
subtotalOf(lines, k) ==
  IF k > Len(lines) THEN Num(0, 1)
  ELSE Add(Mul(ToNumber(lines[k].quantity), ToNumber(lines[k].unitPrice)),
           subtotalOf(lines, k + 1))

computeOrderTotals(lines) ==
  LET subtotal == subtotalOf(lines, 1)
      total == orderTotals(lines).orderTotal
  IN [subtotal |-> subtotal, discountTotal |-> Sub(subtotal, total), total |-> total]

(***************************************************************************)
(* State.                                                                  *)
(***************************************************************************)
VARIABLES
  vPayload,   \* the payload handed to orderSchema
  vIssues,    \* the violations orderSchema returned for it
  vDone,      \* whether orderSchema has run on vPayload
  tLines,     \* the watched lines orderTotals is computed from
  tTotals,    \* orderTotals: [lineTotals, orderTotal]
  tServer,    \* computeOrderTotals: [subtotal, discountTotal, total]
  tDone,      \* whether the totals have been computed from tLines
  orderIdToLoad, \* OrderForm's prop: "" for a new order
  mounted,    \* whether the OrderForm is on screen
  products,   \* the loaded product catalog (ids)
  orderId,    \* OrderForm state
  orderNumber,
  status,     \* "DRAFT", "CONFIRMED", "CANCELLED" or "null"
  loading,
  apiError,
  formValues, \* react-hook-form's values
  catalogReq, \* getCustomers + getProducts in flight
  loadReq,    \* getOrderById in flight
  saveReq,    \* createOrder / updateOrder in flight
  confirmReq, \* confirmOrder in flight
  dbOrders,   \* the persistence collaborator's orders, by id
  dbCancel,   \* the cancelReason and cancelNote it recorded, by id
  orders,     \* OrdersView state: the listed orders (status by id)
  listLoading, \* OrdersView's loading
  listError,  \* OrdersView's error
  includeCancelled,
  cancelTarget, \* the id of the order of the cancel dialog, "" for null
  cancelReason,
  cancelNote,
  toast,      \* the last toast shown by OrdersView
  listReqs,   \* listOrders calls in flight
  cancelReq,  \* cancelOrder in flight
  rOrders,    \* the orders state rows is computed from (ids)
  search,     \* OrdersView's search term (characters)
  searchField, \* "order" or "customer"
  rows,       \* the memoised rows (ids)
  qFetch,     \* what fetch gave to request()
  qResult,    \* what request() returned or threw
  qDone,      \* whether request() has run on qFetch
  cvLoading,  \* CustomerView's loading
  cvError,    \* CustomerView's error
  customers,  \* CustomerView's customers (ids)
  selectedCustomer, \* the id of the customer being edited, "" for null
  confirmDelete, \* the id of the customer of the delete dialog, "" for null
  cvLoadReq,  \* getCustomers in flight
  cvSaveReq,  \* createCustomer / updateCustomer in flight
  cvDeleteReq, \* deleteCustomer in flight
  view        \* the component on screen: "orders" or "customers" (App's tab),
              \* "form" (the OrderForm opened from the orders tab), "none"

validatorVars == <<vPayload, vIssues, vDone>>
totalsVars == <<tLines, tTotals, tServer, tDone>>
uiVars == <<mounted, products, orderId, orderNumber, status, loading, apiError, formValues>>
reqVars == <<catalogReq, loadReq, saveReq, confirmReq>>
formVars == <<orderIdToLoad, uiVars, reqVars, dbOrders>>
listVars ==
  <<orders, listLoading, listError, includeCancelled, cancelTarget, cancelReason, cancelNote,
    toast>>
ordersVars == <<dbCancel, listVars, listReqs, cancelReq>>
rowsVars == <<rOrders, search, searchField, rows>>
requestVars == <<qFetch, qResult, qDone>>
customerVars ==
  <<cvLoading, cvError, customers, selectedCustomer, confirmDelete, cvLoadReq, cvSaveReq,
    cvDeleteReq>>
viewsVars == <<rowsVars, requestVars, customerVars, view>>
vars == <<validatorVars, totalsVars, formVars, ordersVars, viewsVars>>

NoTotals == [lineTotals |-> <<>>, orderTotal |-> Num(0, 1)]
NoServerTotals == [subtotal |-> Num(0, 1), discountTotal |-> Num(0, 1), total |-> Num(0, 1)]
NoPayload == [customerId |-> "", orderDate |-> "", deliveryDate |-> "", lines |-> <<>>]

\* The ids the persistence collaborator assigns, in this order.
OrderIds == {"o1", "o2"}
\* An order the collaborator does not hold.
NoOrder == [status |-> "ABSENT", values |-> NoPayload, totals |-> NoServerTotals]
\* An OrderResponse, and the value standing for none.
NoOrderResponse ==
  [id |-> "", orderNumber |-> "", status |-> "ABSENT", values |-> NoPayload,
   totals |-> NoServerTotals]
\* What request() gave: the data of an ok response, or the error thrown
\* (status 0: fetch itself failed and the error carries no status).
NoResp == [ok |-> FALSE, status |-> 0, message |-> "", order |-> NoOrderResponse]
\* A request: st is "none", "sent" (awaited) or "replied"; id the order id of
\* the URL ("" for createOrder), payload the body.
NoReq == [st |-> "none", id |-> "", payload |-> NoPayload, resp |-> NoResp]

\* The parts of the state a specification does not use stay as they are here.
ValidatorIdle == vPayload = NoPayload /\ vIssues = <<>> /\ vDone = FALSE
TotalsIdle == tLines = <<>> /\ tTotals = NoTotals /\ tServer = NoServerTotals /\ tDone = FALSE
FormIdle ==
  /\ orderIdToLoad = "" /\ mounted = FALSE /\ products = {} /\ orderId = ""
  /\ orderNumber = "" /\ status = "DRAFT" /\ loading = FALSE /\ apiError = ""
  /\ formValues = NoPayload
  /\ catalogReq = NoReq /\ loadReq = NoReq /\ saveReq = NoReq /\ confirmReq = NoReq
  /\ dbOrders = [id \in OrderIds |-> NoOrder]

\* What the collaborator recorded of a cancellation; none while not CANCELLED.
NoCancel == [reason |-> "", note |-> NoString]
\* A cancelOrder call: inc is the includeCancelled its handler closed over.
NoCancelReq ==
  [st |-> "none", id |-> "", reason |-> "", note |-> NoString, inc |-> FALSE,
   resp |-> NoResp]
NoToast == [kind |-> "none", text |-> ""]
OrdersIdle ==
  /\ dbCancel = [id \in OrderIds |-> NoCancel]
  /\ orders = [id \in OrderIds |-> "ABSENT"]
  /\ listLoading = FALSE /\ listError = "" /\ includeCancelled = FALSE
  /\ cancelTarget = "" /\ cancelReason = "" /\ cancelNote = ""
  /\ toast = NoToast /\ listReqs = {} /\ cancelReq = NoCancelReq

\* A JSON value as request() sees it: null, a string, or an object whose
\* message member is absent (Undefined) or a string.
JsonNull == [t |-> "null", message |-> Undefined]
\* What fetch gave: a Response (ok, status, and a body that parses as JSON
\* or not), or a rejection.
NoFetch == [settled |-> "none", ok |-> FALSE, status |-> 0, parses |-> FALSE, json |-> JsonNull]
\* What request() did: returned data, or threw an error with its message,
\* status and body (status 0: the error carries none).
NoResult ==
  [kind |-> "none", data |-> JsonNull, message |-> "", status |-> 0, body |-> JsonNull]
\* A call of CustomerView: st is "none", "sent" or "replied"; ok and message
\* are what request() gave.
NoCall == [st |-> "none", id |-> "", ok |-> FALSE, message |-> ""]

RowsIdle == rOrders = {} /\ search = <<>> /\ searchField = "order" /\ rows = {}
RequestIdle == qFetch = NoFetch /\ qResult = NoResult /\ qDone = FALSE
CustomerIdle ==
  /\ cvLoading = FALSE /\ cvError = "" /\ customers = {}
  /\ selectedCustomer = "" /\ confirmDelete = ""
  /\ cvLoadReq = NoCall /\ cvSaveReq = NoCall /\ cvDeleteReq = NoCall
ViewsIdle == RowsIdle /\ RequestIdle /\ CustomerIdle

(***************************************************************************)
(* The validator on its own: every payload of the bounded input sets is    *)
(* handed to orderSchema.                                                  *)
(***************************************************************************)
CustomerIdInputs == {NoString, "", "c1"}
DateInputs == {NoString, "", "no-date", "2024-01-05", "2024-01-10"}
ProductIdInputs == {"", "p1", "p2"}
\* quantity, unitPrice, discountPct as the form and the API hand them over:
\* numbers, numeric text, "" and text that is no number.
NumericInputs ==
  { <<Num(1, 1), Num(10, 1), Num(0, 1)>>,
    <<NumStr(2, 1), NumStr(999, 100), NumStr(100, 1)>>,
    <<Str("abc"), Num(10, 1), Num(0, 1)>>,
    <<NumStr(3, 2), Num(10, 1), NumStr(-1, 1)>>,
    <<Str(""), Num(0, 1), NumStr(101, 1)>> }

LineInputs ==
  { [productId |-> pid, quantity |-> t[1], unitPrice |-> t[2], discountPct |-> t[3]] :
      pid \in ProductIdInputs, t \in NumericInputs }

LinesInputs == UNION { [1..n -> LineInputs] : n \in 0..MaxLines }

PayloadInputs ==
  [customerId : CustomerIdInputs, orderDate : DateInputs, deliveryDate : DateInputs,
   lines : LinesInputs]

ValidateInit ==
  /\ vPayload \in PayloadInputs
  /\ vIssues = <<>>
  /\ vDone = FALSE
  /\ TotalsIdle
  /\ FormIdle
  /\ OrdersIdle
  /\ ViewsIdle
  /\ view = "none"

RunValidate ==
  /\ ~vDone
  /\ vIssues' = Validate(vPayload)
  /\ vDone' = TRUE
  /\ UNCHANGED <<vPayload, totalsVars, formVars, ordersVars, viewsVars>>

ValidateNext == RunValidate

SpecValidate == ValidateInit /\ [][ValidateNext]_vars

(***************************************************************************)
(* The validator on the lines: every combination of the line fields'       *)
(* inputs, under a header that parses and one whose customerId is missing. *)
(***************************************************************************)
QuantityInputs == {Num(1, 1), Str("abc"), Str(""), NumStr(3, 2)}
UnitPriceInputs == {Num(0, 1), Num(10, 1)}
DiscountPctInputs == {NumStr(-1, 1), Num(0, 1), NumStr(100, 1), NumStr(101, 1)}

FieldLineInputs ==
  [productId : {"", "p1"}, quantity : QuantityInputs, unitPrice : UnitPriceInputs,
   discountPct : DiscountPctInputs]

FieldPayloadInputs ==
  [customerId : {NoString, "c1"}, orderDate : {"2024-01-05"}, deliveryDate : {"2024-01-10"},
   lines : UNION { [1..n -> FieldLineInputs] : n \in 0..MaxFieldLines }]

ValidateLinesInit ==
  /\ vPayload \in FieldPayloadInputs
  /\ vIssues = <<>>
  /\ vDone = FALSE
  /\ TotalsIdle
  /\ FormIdle
  /\ OrdersIdle
  /\ ViewsIdle
  /\ view = "none"

SpecValidateLines == ValidateLinesInit /\ [][ValidateNext]_vars

(***************************************************************************)
(* The totals on their own: every list of lines of the bounded input sets  *)
(* is handed to orderTotals.                                               *)
(***************************************************************************)
TotalQuantityInputs == {Num(2, 1), NumStr(3, 1), Str(""), Str("abc"), PosInf}
TotalUnitPriceInputs == {Num(10, 1), NumStr(999, 100), Num(0, 1), PosInf}
TotalDiscountPctInputs == {Num(0, 1), NumStr(10, 1), NumStr(100, 1), Undefined}

TotalLineInputs ==
  [productId : {"p1"}, quantity : TotalQuantityInputs, unitPrice : TotalUnitPriceInputs,
   discountPct : TotalDiscountPctInputs]

TotalsInit ==
  /\ tLines \in UNION { [1..n -> TotalLineInputs] : n \in 0..MaxTotalLines }
  /\ tTotals = NoTotals
  /\ tServer = NoServerTotals
  /\ tDone = FALSE
  /\ ValidatorIdle
  /\ FormIdle
  /\ OrdersIdle
  /\ ViewsIdle
  /\ view = "none"

ComputeTotals ==
  /\ ~tDone
  /\ tTotals' = orderTotals(tLines)
  /\ tServer' = computeOrderTotals(tLines)
  /\ tDone' = TRUE
  /\ UNCHANGED <<tLines, validatorVars, formVars, ordersVars, viewsVars>>

TotalsNext == ComputeTotals

SpecTotals == TotalsInit /\ [][TotalsNext]_vars

(***************************************************************************)
(* What the validator's rules say of a payload, stated without the schema. *)
(***************************************************************************)
Parses(text) == text # NoString /\ ~IsNaN(DateGetTime(text))
DateOrderFails(p) ==
  /\ Parses(p.orderDate)
  /\ Parses(p.deliveryDate)
  /\ Lt(DateGetTime(p.deliveryDate), DateGetTime(p.orderDate))
ProductIdFails(line) == line.productId \in {NoString, ""}
QuantityFails(line) ==
  LET x == ToNumber(line.quantity) IN ~(IsInteger(x) /\ Le(Num(1, 1), x))
UnitPriceFails(line) == ~Lt(Num(0, 1), ToNumber(line.unitPrice))
DiscountPctFails(line) ==
  LET x == ToNumber(line.discountPct) IN ~(Le(Num(0, 1), x) /\ Le(x, Num(100, 1)))
\* Line k (1-based) repeats the productId of an earlier line.
IsDuplicate(p, k) == \E j \in 1..(k - 1) : p.lines[j].productId = p.lines[k].productId
LineFieldFails(line, field) ==
  CASE field = "productId" -> ProductIdFails(line)
    [] field = "quantity" -> QuantityFails(line)
    [] field = "unitPrice" -> UnitPriceFails(line)
    [] field = "discountPct" -> DiscountPctFails(line)
LineFields == {"productId", "quantity", "unitPrice", "discountPct"}

PayloadValid(p) ==
  /\ p.customerId \notin {NoString, ""}
  /\ Parses(p.orderDate)
  /\ Parses(p.deliveryDate)
  /\ ~DateOrderFails(p)
  /\ Len(p.lines) >= 1
  /\ \A k \in 1..Len(p.lines) : \A f \in LineFields : ~LineFieldFails(p.lines[k], f)
  /\ \A k \in 1..Len(p.lines) : ~IsDuplicate(p, k)

\* The reported violations at a path, all of them or those of one rule.
IssuesAt(root, idx, field) ==
  { i \in DOMAIN vIssues :
      vIssues[i].root = root /\ vIssues[i].idx = idx /\ vIssues[i].field = field }
IssuesOf(root, idx, field, check) ==
  { i \in IssuesAt(root, idx, field) : vIssues[i].check = check }
\* The violations of the per-line rules (not the duplicate rule) at a line field.
RuleIssuesAt(idx, field) ==
  { i \in IssuesAt("lines", idx, field) : vIssues[i].check # "superRefine.duplicate" }

(***************************************************************************)
(* Claims on the validator.                                                *)
(***************************************************************************)
\* C1 (as claimed): every check that fails contributes its own violation,
\* whatever other checks fail in the same payload.
C1_EveryFailingCheckReported ==
  vDone =>
    /\ (vPayload.customerId \in {NoString, ""} => IssuesAt("customerId", -1, "") # {})
    /\ (~Parses(vPayload.orderDate) => IssuesAt("orderDate", -1, "") # {})
    /\ (~Parses(vPayload.deliveryDate) => IssuesAt("deliveryDate", -1, "") # {})
    /\ (DateOrderFails(vPayload) =>
          IssuesOf("deliveryDate", -1, "", "superRefine.dateOrder") # {})
    /\ (Len(vPayload.lines) = 0 => IssuesAt("lines", -1, "") # {})
    /\ \A k \in 1..Len(vPayload.lines) :
         /\ \A f \in LineFields :
              LineFieldFails(vPayload.lines[k], f) => RuleIssuesAt(k - 1, f) # {}
         /\ (IsDuplicate(vPayload, k) =>
               IssuesOf("lines", k - 1, "productId", "superRefine.duplicate") # {})

\* C2 (as claimed): deliveryDate earlier than orderDate gives exactly one
\* violation on deliveryDate, whatever the other fields are.
C2_OneViolationOnDeliveryDate ==
  (vDone /\ DateOrderFails(vPayload)) =>
    Cardinality(IssuesAt("deliveryDate", -1, "")) = 1

\* C3 (as claimed): k >= 2 lines sharing a productId give k-1 duplicate
\* violations, one on each occurrence after the first, none on the first.
C3_DuplicatesBeyondFirst ==
  vDone =>
    \A k \in 1..Len(vPayload.lines) :
      Cardinality(IssuesOf("lines", k - 1, "productId", "superRefine.duplicate"))
        = IF IsDuplicate(vPayload, k) THEN 1 ELSE 0

\* C4: the violation list is empty exactly when the payload is valid.
C4_EmptyIffValid == vDone => ((vIssues = <<>>) <=> PayloadValid(vPayload))
C4_Witness == vDone /\ vIssues = <<>> /\ Len(vPayload.lines) = 2

\* C5: the date ordering is reported only when both dates parse and
\* deliveryDate < orderDate, always on deliveryDate and never on orderDate;
\* a date that is missing or does not parse has a violation on its own field.
C5_DateOrderOnlyWhenBothParse ==
  vDone =>
    /\ \A i \in DOMAIN vIssues :
         vIssues[i].check = "superRefine.dateOrder" =>
           /\ DateOrderFails(vPayload)
           /\ vIssues[i].root = "deliveryDate" /\ vIssues[i].idx = -1 /\ vIssues[i].field = ""
    /\ Cardinality({ i \in DOMAIN vIssues : vIssues[i].check = "superRefine.dateOrder" }) <= 1
    /\ (Parses(vPayload.orderDate) <=> IssuesAt("orderDate", -1, "") = {})
    /\ (~Parses(vPayload.deliveryDate) => IssuesAt("deliveryDate", -1, "") # {})
    /\ (IssuesAt("deliveryDate", -1, "") # {} =>
          ~Parses(vPayload.deliveryDate) \/ DateOrderFails(vPayload))
C5_Witness ==
  /\ vDone
  /\ DateOrderFails(vPayload)
  /\ IssuesOf("deliveryDate", -1, "", "superRefine.dateOrder") # {}
  /\ IssuesAt("orderDate", -1, "") = {}
  /\ Len(vPayload.lines) = 0

\* C6: a per-line rule that fails in line i is reported at lines[i].<field>
\* and nowhere else; quantity 1, discountPct 0 and 100 pass, unitPrice 0 fails.
C6_LineFailuresAtTheirPath ==
  vDone =>
    /\ \A k \in 1..Len(vPayload.lines) : \A f \in LineFields :
         LineFieldFails(vPayload.lines[k], f) <=> RuleIssuesAt(k - 1, f) # {}
    /\ \A i \in DOMAIN vIssues :
         vIssues[i].idx # -1 =>
           /\ vIssues[i].root = "lines"
           /\ vIssues[i].idx \in 0..(Len(vPayload.lines) - 1)
           /\ vIssues[i].field \in LineFields
    /\ \A k \in 1..Len(vPayload.lines) :
         /\ (vPayload.lines[k].quantity = Num(1, 1) => RuleIssuesAt(k - 1, "quantity") = {})
         /\ (vPayload.lines[k].discountPct \in {Num(0, 1), NumStr(100, 1)} =>
               RuleIssuesAt(k - 1, "discountPct") = {})
         /\ (vPayload.lines[k].unitPrice = Num(0, 1) => RuleIssuesAt(k - 1, "unitPrice") # {})
C6_Witness ==
  /\ vDone
  /\ Len(vPayload.lines) = 2
  /\ vPayload.lines[1].discountPct = NumStr(100, 1)
  /\ vPayload.lines[1].unitPrice = Num(10, 1)
  /\ vPayload.lines[1].quantity = Num(1, 1)
  /\ vPayload.lines[1].productId = "p1"
  /\ vPayload.lines[2].unitPrice = Num(0, 1)
  /\ vPayload.lines[2].productId = "p1"
  /\ IssuesAt("lines", 0, "quantity") \cup IssuesAt("lines", 0, "unitPrice")
       \cup IssuesAt("lines", 0, "discountPct") \cup IssuesAt("lines", 0, "productId") = {}
  /\ IssuesOf("lines", 1, "unitPrice", "gt") # {}

(***************************************************************************)
(* Claims on the totals.                                                   *)
(***************************************************************************)
\* The coerced inputs of line k: Number(field || 0).
QtyOf(k) == ToNumber(OrZero(tLines[k].quantity))
PriceOf(k) == ToNumber(OrZero(tLines[k].unitPrice))
PctOf(k) == ToNumber(OrZero(tLines[k].discountPct))
LineIsFinite(k) ==
  /\ IsFinite(QtyOf(k)) /\ IsFinite(PriceOf(k)) /\ IsFinite(PctOf(k))
\* A finite x in ten-thousandths, for the values of the model (x.d divides 10000).
Units(x) == (x.n * 10000) \div x.d
RECURSIVE SumUnits(_, _)
SumUnits(totals, k) ==
  IF k > Len(totals) THEN 0 ELSE Units(totals[k]) + SumUnits(totals, k + 1)

\* C7: a line total is quantity * unitPrice * (1 - discountPct/100), exactly,
\* and 0 whenever that product is not finite; no line total and no order
\* total is NaN or Infinity.  2 x 10.00 at 0% is 20; 3 x 9.99 at 10% is
\* 26.973, shown as 26.97.
C7_LineTotalExactOrZero ==
  tDone =>
    /\ Len(tTotals.lineTotals) = Len(tLines)
    /\ IsFinite(tTotals.orderTotal)
    /\ \A k \in 1..Len(tLines) :
         LET t == tTotals.lineTotals[k]
             q == QtyOf(k)
             u == PriceOf(k)
             c == PctOf(k)
         IN /\ IsFinite(t)
            /\ (LineIsFinite(k) =>
                  t.n * (q.d * u.d * c.d * 100) = t.d * (q.n * u.n * (100 * c.d - c.n)))
            /\ (~LineIsFinite(k) => t.n = 0)
            /\ ((tLines[k].quantity = Num(2, 1) /\ tLines[k].unitPrice = Num(10, 1)
                   /\ tLines[k].discountPct = Num(0, 1)) => t = Num(20, 1))
            /\ ((tLines[k].quantity = NumStr(3, 1) /\ tLines[k].unitPrice = NumStr(999, 100)
                   /\ tLines[k].discountPct = NumStr(10, 1)) =>
                  t = Num(26973, 1000) /\ toFixed2(t) = 2697)
C7_Witness ==
  /\ tDone
  /\ Len(tLines) = 2
  /\ tLines[1].quantity = NumStr(3, 1)
  /\ tLines[1].unitPrice = NumStr(999, 100)
  /\ tLines[1].discountPct = NumStr(10, 1)
  /\ tTotals.lineTotals[1] = Num(26973, 1000)
  /\ tLines[2].quantity = Str("abc")
  /\ tLines[2].unitPrice = PosInf
  /\ tTotals.lineTotals[2] = Num(0, 1)

\* C8: the order total is the sum of the line totals, subtotal - total is
\* discountTotal, and no lines give totals that are all zero.
C8_TotalIsSumOfLineTotals ==
  tDone =>
    /\ \A k \in 1..Len(tLines) : tTotals.lineTotals[k] = lineTotalOf(tLines[k])
    /\ Units(tTotals.orderTotal) = SumUnits(tTotals.lineTotals, 1)
    /\ tServer.total = tTotals.orderTotal
    /\ (IsFinite(tServer.subtotal) =>
          /\ IsFinite(tServer.discountTotal)
          /\ Units(tServer.subtotal) - Units(tServer.total) = Units(tServer.discountTotal))
    /\ (tLines = <<>> =>
          /\ tTotals = [lineTotals |-> <<>>, orderTotal |-> Num(0, 1)]
          /\ tServer.subtotal = Num(0, 1)
          /\ tServer.discountTotal = Num(0, 1)
          /\ tServer.total = Num(0, 1))
C8_Witness ==
  /\ tDone
  /\ Len(tLines) = 2
  /\ tTotals.lineTotals[1] = Num(20, 1)
  /\ tTotals.lineTotals[2] = Num(26973, 1000)
  /\ tTotals.orderTotal = Num(46973, 1000)
  /\ tServer.subtotal = Num(4997, 100)
  /\ tServer.discountTotal = Num(2997, 1000)

(***************************************************************************)
(* The order form and the persistence collaborator.                        *)
(***************************************************************************)
Today == "2024-01-05"

defaultValues ==
  [customerId |-> "", orderDate |-> Today, deliveryDate |-> Today,
   lines |-> << [productId |-> "", quantity |-> Num(1, 1), unitPrice |-> Num(0, 1),
                 discountPct |-> Num(0, 1)] >>]

\* The product catalog of the collaborator and each product's basePrice.
CatalogProducts == {"p1"}
basePrice(productId) == Num(10, 1)
CatalogCustomers == {"c1"}

orderNumberOf(id) == IF id = "o1" THEN "SO-1" ELSE "SO-2"

OrderResponseOf(id, order) ==
  [id |-> id, orderNumber |-> orderNumberOf(id), status |-> order.status,
   values |-> order.values, totals |-> order.totals]

OkResp(order) == [ok |-> TRUE, status |-> 200, message |-> "", order |-> order]
ErrResp(code, text) == [ok |-> FALSE, status |-> code, message |-> text, order |-> NoOrderResponse]

Sent(id, payload) == [st |-> "sent", id |-> id, payload |-> payload, resp |-> NoResp]
Replied(req, resp) == [req EXCEPT !.st = "replied", !.resp = resp]

\* ---- the form's derived values ----
isConfirmed == status = "CONFIRMED"
isValid == Validate(formValues) = <<>>
isSubmitting == saveReq.st # "none"
\* disabled={isConfirmed || loading} of every input, of add-line and remove
FieldsDisabled == isConfirmed \/ loading
\* disabled={!isValid || isSubmitting || loading || isConfirmed}
SubmitDisabled == ~isValid \/ isSubmitting \/ loading \/ isConfirmed
\* disabled={isConfirmed || loading || !orderId}
ConfirmDisabled == isConfirmed \/ loading \/ orderId = ""

\* Mutant: the form takes each line's price from the catalog.
mapResponseToForm_CatalogPrice(order) ==
  [customerId |-> order.values.customerId,
   orderDate |-> order.values.orderDate,
   deliveryDate |-> order.values.deliveryDate,
   lines |-> [k \in 1..Len(order.values.lines) |->
                [productId |-> order.values.lines[k].productId,
                 quantity |-> order.values.lines[k].quantity,
                 unitPrice |-> basePrice(order.values.lines[k].productId),
                 discountPct |-> order.values.lines[k].discountPct]]]

\* mapResponseToForm
mapResponseToForm(order) ==
  [customerId |-> order.values.customerId,
   orderDate |-> order.values.orderDate,
   deliveryDate |-> order.values.deliveryDate,
   lines |-> [k \in 1..Len(order.values.lines) |->
                [productId |-> order.values.lines[k].productId,
                 quantity |-> order.values.lines[k].quantity,
                 unitPrice |-> order.values.lines[k].unitPrice,
                 discountPct |-> order.values.lines[k].discountPct]]]

\* Mutant: the payload carries an orderNumber.
payloadOf_WithOrderNumber(formData) ==
  [customerId |-> formData.customerId,
   orderDate |-> formData.orderDate,
   deliveryDate |-> formData.deliveryDate,
   orderNumber |-> "SO-9",
   lines |-> [k \in 1..Len(formData.lines) |->
                [productId |-> formData.lines[k].productId,
                 quantity |-> ToNumber(formData.lines[k].quantity),
                 unitPrice |-> ToNumber(formData.lines[k].unitPrice),
                 discountPct |-> ToNumber(formData.lines[k].discountPct)]]]

\* The payload onSubmit builds from the resolver's output.
payloadOf(formData) ==
  [customerId |-> formData.customerId,
   orderDate |-> formData.orderDate,
   deliveryDate |-> formData.deliveryDate,
   lines |-> [k \in 1..Len(formData.lines) |->
                [productId |-> formData.lines[k].productId,
                 quantity |-> ToNumber(formData.lines[k].quantity),
                 unitPrice |-> ToNumber(formData.lines[k].unitPrice),
                 discountPct |-> ToNumber(formData.lines[k].discountPct)]]]

\* ---- mount: useState's initial values, then both effects' first run ----
\* An order the collaborator holds when the form is opened, saved when the
\* basePrice of its product was 8.
SavedValues ==
  [defaultValues EXCEPT !.customerId = "c1", !.lines[1].productId = "p1",
                        !.lines[1].unitPrice = Num(8, 1)]

\* The one order that may exist when the form is opened.
FirstId == "o1"

FormInit ==
  /\ orderIdToLoad \in {"", FirstId}
  /\ dbOrders \in { db \in [OrderIds -> {NoOrder} \cup
                       { [status |-> st, values |-> payloadOf(SavedValues),
                          totals |-> computeOrderTotals(payloadOf(SavedValues).lines)] :
                         st \in {"DRAFT", "CONFIRMED", "CANCELLED"} }] :
                      \A id \in OrderIds \ {FirstId} : db[id] = NoOrder }
  /\ mounted = TRUE
  /\ products = {}
  /\ orderId = ""
  /\ orderNumber = ""
  /\ status = IF orderIdToLoad = "" THEN "DRAFT" ELSE "null"
  /\ loading = TRUE
  /\ apiError = ""
  /\ formValues = defaultValues
  /\ catalogReq = Sent("", NoPayload)
  /\ loadReq = IF orderIdToLoad = "" THEN NoReq ELSE Sent(orderIdToLoad, NoPayload)
  /\ saveReq = NoReq
  /\ confirmReq = NoReq
  /\ ValidatorIdle
  /\ TotalsIdle
  /\ OrdersIdle
  /\ ViewsIdle
  /\ view = "form"

\* ---- the persistence collaborator ----
\* The Validator and the lifecycle guards of each mutating call, and the
\* totals stored with the order.
StoredOrder(st, payload) ==
  [status |-> st, values |-> payload, totals |-> computeOrderTotals(payload.lines)]

FreeIds == { id \in OrderIds : dbOrders[id].status = "ABSENT" }
NextId == CHOOSE id \in FreeIds : TRUE

\* An order that is CANCELLED rejects every mutating call, as a conflict or
\* as not found.
CancelledCodes == {409, 404}

\* GET /api/orders/{id}
ServerGetOrder ==
  /\ loadReq.st = "sent"
  /\ loadReq' = Replied(loadReq,
       IF dbOrders[loadReq.id].status = "ABSENT"
       THEN ErrResp(404, "Pedido no encontrado")
       ELSE OkResp(OrderResponseOf(loadReq.id, dbOrders[loadReq.id])))
  /\ UNCHANGED <<validatorVars, totalsVars, ordersVars, viewsVars, orderIdToLoad, uiVars, catalogReq,
                 saveReq,
                 confirmReq, dbOrders>>

\* POST /api/orders
ServerCreateOrder ==
  /\ saveReq.st = "sent"
  /\ saveReq.id = ""
  /\ IF Validate(saveReq.payload) # <<>>
     THEN /\ saveReq' = Replied(saveReq, ErrResp(400, "Datos invalidos"))
          /\ UNCHANGED dbOrders
     ELSE /\ FreeIds # {}
          /\ dbOrders' = [dbOrders EXCEPT ![NextId] = StoredOrder("DRAFT", saveReq.payload)]
          /\ saveReq' = Replied(saveReq, OkResp(OrderResponseOf(NextId, dbOrders'[NextId])))
  /\ UNCHANGED <<validatorVars, totalsVars, ordersVars, viewsVars, orderIdToLoad, uiVars, catalogReq,
                 loadReq,
                 confirmReq>>

\* PUT /api/orders/{id}
ServerUpdateOrder ==
  /\ saveReq.st = "sent"
  /\ saveReq.id # ""
  /\ LET id == saveReq.id
         st == dbOrders[id].status
     IN CASE st = "ABSENT" ->
               /\ saveReq' = Replied(saveReq, ErrResp(404, "Pedido no encontrado"))
               /\ UNCHANGED dbOrders
          [] st = "CONFIRMED" ->
               /\ saveReq' = Replied(saveReq, ErrResp(409, "Pedido confirmado"))
               /\ UNCHANGED dbOrders
          [] st = "CANCELLED" ->
               /\ \E code \in CancelledCodes :
                    saveReq' = Replied(saveReq, ErrResp(code, "Pedido cancelado"))
               /\ UNCHANGED dbOrders
          [] st = "DRAFT" /\ Validate(saveReq.payload) # <<>> ->
               /\ saveReq' = Replied(saveReq, ErrResp(400, "Datos invalidos"))
               /\ UNCHANGED dbOrders
          [] OTHER ->
               /\ dbOrders' = [dbOrders EXCEPT ![id] = StoredOrder("DRAFT", saveReq.payload)]
               /\ saveReq' = Replied(saveReq, OkResp(OrderResponseOf(id, dbOrders'[id])))
  /\ UNCHANGED <<validatorVars, totalsVars, ordersVars, viewsVars, orderIdToLoad, uiVars, catalogReq,
                 loadReq,
                 confirmReq>>

\* Mutant: confirm treats a CANCELLED order like a DRAFT one.
ServerConfirmOrder_ConfirmsCancelled ==
  /\ confirmReq.st = "sent"
  /\ LET id == confirmReq.id
         st == dbOrders[id].status
     IN IF st \in {"DRAFT", "CANCELLED"}
        THEN /\ dbOrders' = [dbOrders EXCEPT ![id].status = "CONFIRMED"]
             /\ confirmReq' = Replied(confirmReq, OkResp(OrderResponseOf(id, dbOrders'[id])))
        ELSE /\ confirmReq' = Replied(confirmReq, ErrResp(404, "Pedido no encontrado"))
             /\ UNCHANGED dbOrders
  /\ UNCHANGED <<validatorVars, totalsVars, ordersVars, viewsVars, orderIdToLoad, uiVars, catalogReq,
                 loadReq,
                 saveReq>>

\* POST /api/orders/{id}/confirm
ServerConfirmOrder ==
  /\ confirmReq.st = "sent"
  /\ LET id == confirmReq.id
         st == dbOrders[id].status
     IN CASE st = "ABSENT" ->
               /\ confirmReq' = Replied(confirmReq, ErrResp(404, "Pedido no encontrado"))
               /\ UNCHANGED dbOrders
          [] st = "CONFIRMED" ->
               /\ confirmReq' = Replied(confirmReq, ErrResp(409, "Pedido confirmado"))
               /\ UNCHANGED dbOrders
          [] st = "CANCELLED" ->
               /\ \E code \in CancelledCodes :
                    confirmReq' = Replied(confirmReq, ErrResp(code, "Pedido cancelado"))
               /\ UNCHANGED dbOrders
          [] OTHER ->
               /\ dbOrders' = [dbOrders EXCEPT ![id].status = "CONFIRMED"]
               /\ confirmReq' = Replied(confirmReq, OkResp(OrderResponseOf(id, dbOrders'[id])))
  /\ UNCHANGED <<validatorVars, totalsVars, ordersVars, viewsVars, orderIdToLoad, uiVars, catalogReq,
                 loadReq,
                 saveReq>>

\* GET /api/customers and /api/products
ServerCatalogs ==
  /\ catalogReq.st = "sent"
  /\ catalogReq' = Replied(catalogReq, OkResp(NoOrderResponse))
  /\ UNCHANGED <<validatorVars, totalsVars, ordersVars, viewsVars, orderIdToLoad, uiVars, loadReq, saveReq,
                 confirmReq, dbOrders>>

\* fetch fails: the awaited request() throws an error without a status.
NetworkError == ErrResp(0, "Failed to fetch")
TransportFailure ==
  /\ \/ /\ catalogReq.st = "sent"
        /\ catalogReq' = Replied(catalogReq, NetworkError)
        /\ UNCHANGED <<loadReq, saveReq, confirmReq>>
     \/ /\ loadReq.st = "sent"
        /\ loadReq' = Replied(loadReq, NetworkError)
        /\ UNCHANGED <<catalogReq, saveReq, confirmReq>>
     \/ /\ saveReq.st = "sent"
        /\ saveReq' = Replied(saveReq, NetworkError)
        /\ UNCHANGED <<catalogReq, loadReq, confirmReq>>
     \/ /\ confirmReq.st = "sent"
        /\ confirmReq' = Replied(confirmReq, NetworkError)
        /\ UNCHANGED <<catalogReq, loadReq, saveReq>>
  /\ UNCHANGED <<validatorVars, totalsVars, ordersVars, viewsVars, orderIdToLoad, uiVars, dbOrders>>

\* Another client of the collaborator confirms or cancels an order.
OtherClientConfirms ==
  /\ \E id \in OrderIds :
       /\ dbOrders[id].status = "DRAFT"
       /\ dbOrders' = [dbOrders EXCEPT ![id].status = "CONFIRMED"]
  /\ UNCHANGED <<validatorVars, totalsVars, ordersVars, viewsVars, orderIdToLoad, uiVars, reqVars>>

OtherClientCancels ==
  /\ \E id \in OrderIds :
       /\ dbOrders[id].status \in {"DRAFT", "CONFIRMED"}
       /\ dbOrders' = [dbOrders EXCEPT ![id].status = "CANCELLED"]
  /\ UNCHANGED <<validatorVars, totalsVars, ordersVars, viewsVars, orderIdToLoad, uiVars, reqVars>>

\* ---- the form's effects and handlers ----
\* loadCatalogs, after the await
loadCatalogsDone ==
  /\ catalogReq.st = "replied"
  /\ catalogReq' = NoReq
  /\ IF mounted
     THEN /\ products' = IF catalogReq.resp.ok THEN CatalogProducts ELSE products
          /\ apiError' = IF catalogReq.resp.ok THEN apiError
                         ELSE "No se pudieron cargar los catalogos"
          /\ loading' = FALSE
     ELSE UNCHANGED <<products, apiError, loading>>
  /\ UNCHANGED <<validatorVars, totalsVars, ordersVars, viewsVars, orderIdToLoad, mounted, orderId,
                 orderNumber,
                 status, formValues,
                 loadReq, saveReq, confirmReq, dbOrders>>

\* load, after the await
loadDone ==
  /\ loadReq.st = "replied"
  /\ loadReq' = NoReq
  /\ IF ~mounted
     THEN UNCHANGED <<formValues, orderId, orderNumber, status, apiError, loading>>
     ELSE /\ IF loadReq.resp.ok
             THEN /\ formValues' = mapResponseToForm(loadReq.resp.order)
                  /\ orderId' = loadReq.resp.order.id
                  /\ orderNumber' = loadReq.resp.order.orderNumber
                  /\ status' = loadReq.resp.order.status
                  /\ UNCHANGED apiError
             ELSE /\ apiError' = loadReq.resp.message
                  /\ UNCHANGED <<formValues, orderId, orderNumber, status>>
          /\ loading' = FALSE
  /\ UNCHANGED <<validatorVars, totalsVars, ordersVars, viewsVars, orderIdToLoad, mounted, products,
                 catalogReq,
                 saveReq, confirmReq, dbOrders>>

\* The submit button: handleSubmit runs the resolver and, the values being
\* valid, onSubmit up to its await.
onSubmit ==
  /\ mounted
  /\ ~SubmitDisabled
  /\ apiError' = ""
  /\ loading' = TRUE
  /\ saveReq' = Sent(orderId, payloadOf(formValues))
  /\ UNCHANGED <<validatorVars, totalsVars, ordersVars, viewsVars, orderIdToLoad, mounted, products,
                 orderId,
                 orderNumber, status, formValues,
                 catalogReq, loadReq, confirmReq, dbOrders>>

\* Mutant: the catch of onSubmit puts the form back to DRAFT.
onSubmitCatch_BackToDraft(err) ==
  IF err.status = 409
  THEN [apiError |-> "Pedido confirmado, no se puede editar", status |-> "CONFIRMED"]
  ELSE [apiError |-> err.message, status |-> "DRAFT"]

\* Mutant: the catch of onSubmit reports the conflict and keeps the status.
onSubmitCatch_KeepsStatus(err) ==
  IF err.status = 409
  THEN [apiError |-> "Pedido confirmado, no se puede editar", status |-> status]
  ELSE [apiError |-> err.message, status |-> status]

\* The catch of onSubmit: what apiError and status become.
onSubmitCatch(err) ==
  IF err.status = 409
  THEN [apiError |-> "Pedido confirmado, no se puede editar", status |-> "CONFIRMED"]
  ELSE [apiError |-> err.message, status |-> status]

\* Mutant: a failed save is sent again without the user.
onSubmitDone_RetriesOnFailure ==
  /\ saveReq.st = "replied"
  /\ IF ~mounted
     THEN saveReq' = NoReq /\ UNCHANGED <<formValues, orderId, orderNumber, status, apiError, loading>>
     ELSE IF saveReq.resp.ok
          THEN /\ saveReq' = NoReq
               /\ orderId' = saveReq.resp.order.id
               /\ orderNumber' = saveReq.resp.order.orderNumber
               /\ status' = saveReq.resp.order.status
               /\ formValues' = mapResponseToForm(saveReq.resp.order)
               /\ loading' = FALSE
               /\ UNCHANGED apiError
          ELSE /\ saveReq' = Sent(saveReq.id, saveReq.payload)
               /\ UNCHANGED <<formValues, orderId, orderNumber, status, apiError, loading>>
  /\ UNCHANGED <<validatorVars, totalsVars, ordersVars, viewsVars, orderIdToLoad, mounted, products,
                 catalogReq,
                 loadReq, confirmReq, dbOrders>>

\* onSubmit, after the await
onSubmitDone ==
  /\ saveReq.st = "replied"
  /\ saveReq' = NoReq
  /\ IF ~mounted
     THEN UNCHANGED <<formValues, orderId, orderNumber, status, apiError, loading>>
     ELSE /\ IF saveReq.resp.ok
             THEN /\ orderId' = saveReq.resp.order.id
                  /\ orderNumber' = saveReq.resp.order.orderNumber
                  /\ status' = saveReq.resp.order.status
                  /\ formValues' = mapResponseToForm(saveReq.resp.order)
                  /\ UNCHANGED apiError
             ELSE /\ apiError' = onSubmitCatch(saveReq.resp).apiError
                  /\ status' = onSubmitCatch(saveReq.resp).status
                  /\ UNCHANGED <<formValues, orderId, orderNumber>>
          /\ loading' = FALSE
  /\ UNCHANGED <<validatorVars, totalsVars, ordersVars, viewsVars, orderIdToLoad, mounted, products,
                 catalogReq,
                 loadReq, confirmReq, dbOrders>>

\* handleConfirm up to its await.
handleConfirm ==
  /\ IF orderId = ""
     THEN /\ apiError' = "Primero guarda el pedido antes de confirmar"
          /\ UNCHANGED <<loading, confirmReq>>
     ELSE /\ apiError' = ""
          /\ loading' = TRUE
          /\ confirmReq' = Sent(orderId, NoPayload)
  /\ UNCHANGED <<validatorVars, totalsVars, ordersVars, viewsVars, orderIdToLoad, mounted, products,
                 orderId,
                 orderNumber, status, formValues,
                 catalogReq, loadReq, saveReq, dbOrders>>

\* The Confirm button, while no confirmation is awaited.
clickConfirm ==
  /\ mounted
  /\ ~ConfirmDisabled
  /\ confirmReq.st = "none"
  /\ handleConfirm

\* The catch of handleConfirm: what apiError becomes.
handleConfirmCatch(err) ==
  IF err.status = 404 THEN "Pedido no encontrado"
  ELSE IF err.status = 409 THEN "Pedido confirmado, no se puede editar"
  ELSE err.message

\* handleConfirm, after the await; onBack leaves the form.
handleConfirmDone ==
  /\ confirmReq.st = "replied"
  /\ confirmReq' = NoReq
  /\ IF ~mounted
     THEN UNCHANGED <<formValues, status, apiError, loading, mounted>>
     ELSE /\ IF confirmReq.resp.ok
             THEN /\ status' = confirmReq.resp.order.status
                  /\ formValues' = mapResponseToForm(confirmReq.resp.order)
                  /\ mounted' = FALSE
                  /\ UNCHANGED apiError
             ELSE /\ apiError' = handleConfirmCatch(confirmReq.resp)
                  /\ UNCHANGED <<formValues, status, mounted>>
          /\ loading' = FALSE
  /\ UNCHANGED <<validatorVars, totalsVars, ordersVars, viewsVars, orderIdToLoad, products, orderId,
                 orderNumber,
                 catalogReq, loadReq, saveReq,
                 dbOrders>>

\* "Volver a pedidos"
onBack ==
  /\ mounted
  /\ ~loading
  /\ mounted' = FALSE
  /\ UNCHANGED <<validatorVars, totalsVars, ordersVars, viewsVars, orderIdToLoad, products, orderId,
                 orderNumber,
                 status, loading, apiError,
                 formValues, reqVars, dbOrders>>

\* ---- the user's edits ----
EditFrame ==
  UNCHANGED <<validatorVars, totalsVars, ordersVars, viewsVars, orderIdToLoad, mounted, products, orderId,
              orderNumber, status, loading,
              apiError, reqVars, dbOrders>>

\* The customer select: the placeholder or a loaded customer.
selectCustomer ==
  /\ mounted
  /\ ~FieldsDisabled
  /\ \E c \in {""} \cup (IF products = {} THEN {} ELSE CatalogCustomers) :
       formValues' = [formValues EXCEPT !.customerId = c]
  /\ EditFrame

\* handleProductSelect, after the field's own onChange.
handleProductSelect ==
  /\ mounted
  /\ ~FieldsDisabled
  /\ \E index \in 1..Len(formValues.lines), productId \in {""} \cup products :
       LET line == [formValues.lines[index] EXCEPT !.productId = productId]
       IN formValues' =
            [formValues EXCEPT !.lines[index] =
               IF productId \in products
               THEN [line EXCEPT
                       !.quantity = IF Truthy(line.quantity) THEN line.quantity ELSE Num(1, 1),
                       !.unitPrice = basePrice(productId),
                       !.discountPct = Num(0, 1)]
               ELSE line]
  /\ EditFrame

\* The quantity input: its text.
QuantityTexts == {Str(""), NumStr(2, 1)}
changeQuantity ==
  /\ mounted
  /\ ~FieldsDisabled
  /\ \E index \in 1..Len(formValues.lines), text \in QuantityTexts :
       formValues' = [formValues EXCEPT !.lines[index].quantity = text]
  /\ EditFrame

addLine ==
  /\ mounted
  /\ ~FieldsDisabled
  /\ Len(formValues.lines) < MaxFormLines
  /\ formValues' = [formValues EXCEPT !.lines = Append(@,
       [productId |-> "", quantity |-> Num(1, 1), unitPrice |-> Num(0, 1),
        discountPct |-> Num(0, 1)])]
  /\ EditFrame

remove ==
  /\ mounted
  /\ ~FieldsDisabled
  /\ \E index \in 1..Len(formValues.lines) :
       formValues' = [formValues EXCEPT !.lines =
         [k \in 1..(Len(@) - 1) |-> IF k < index THEN @[k] ELSE @[k + 1]]]
  /\ EditFrame

FormNext ==
  \/ ServerGetOrder
  \/ ServerCreateOrder
  \/ ServerUpdateOrder
  \/ ServerConfirmOrder
  \/ ServerCatalogs
  \/ TransportFailure
  \/ OtherClientConfirms
  \/ OtherClientCancels
  \/ loadCatalogsDone
  \/ loadDone
  \/ onSubmit
  \/ onSubmitDone
  \/ clickConfirm
  \/ handleConfirmDone
  \/ onBack
  \/ selectCustomer
  \/ handleProductSelect
  \/ changeQuantity
  \/ addLine
  \/ remove

Spec == FormInit /\ [][FormNext]_vars

\* ---- the confirmed order and the form ----
\* The collaborator answered the awaited call of the request (no transport failure).
Answered(req, req2) ==
  /\ req.st = "sent"
  /\ req2.st = "replied"
  /\ req2.resp # NetworkError

\* The form resumes onSubmit with a rejection as a lifecycle conflict.
SaveRejected ==
  /\ mounted
  /\ saveReq.st = "replied"
  /\ ~saveReq.resp.ok
  /\ saveReq.resp.status = 409

\* C9: confirming a DRAFT order that has an id moves it to CONFIRMED; an
\* update of a CONFIRMED order is answered with a lifecycle conflict and no
\* step changes the lines or the totals of a CONFIRMED order; after a rejected
\* save the form keeps orderId, orderNumber and its values and shows status
\* CONFIRMED, and a form showing CONFIRMED is read-only: its inputs and its
\* submit button are disabled and no step of it is an edit or a save.
C9_ConfirmedOrderRejectsUpdate ==
  [][ /\ (Answered(confirmReq, confirmReq') /\ dbOrders[confirmReq.id].status = "DRAFT")
           => /\ confirmReq'.resp.ok
              /\ confirmReq'.resp.order.status = "CONFIRMED"
              /\ dbOrders'[confirmReq.id].status = "CONFIRMED"
      /\ (Answered(saveReq, saveReq') /\ saveReq.id # ""
            /\ dbOrders[saveReq.id].status = "CONFIRMED")
           => /\ ~saveReq'.resp.ok
              /\ saveReq'.resp.status = 409
              /\ dbOrders' = dbOrders
      /\ \A id \in OrderIds :
           dbOrders[id].status = "CONFIRMED"
             => /\ dbOrders'[id].values = dbOrders[id].values
                /\ dbOrders'[id].totals = dbOrders[id].totals
      /\ (SaveRejected /\ saveReq' = NoReq)
           => /\ orderId' = orderId
              /\ orderNumber' = orderNumber
              /\ formValues' = formValues
              /\ status' = "CONFIRMED"
      /\ (mounted /\ isConfirmed)
           => /\ FieldsDisabled
              /\ SubmitDisabled
              /\ ~(selectCustomer \/ handleProductSelect \/ changeQuantity
                     \/ addLine \/ remove \/ onSubmit)
    ]_vars

\* The form after a save of an order that was confirmed meanwhile: loaded as
\* DRAFT, saved, rejected, and now read-only.
C9_Witness ==
  /\ mounted
  /\ orderId # ""
  /\ dbOrders[orderId].status = "CONFIRMED"
  /\ saveReq = NoReq
  /\ apiError = "Pedido confirmado, no se puede editar"
  /\ status = "CONFIRMED"
  /\ ~loading

\* C10: whenever the Confirm button is enabled the form's status is DRAFT and
\* the order has been saved, and every step that sends a confirmOrder request
\* is taken by a form whose status is DRAFT and whose orderId is not empty.
C10_ConfirmOnlyWhenDraftAndSaved ==
  [][ /\ (mounted /\ ~ConfirmDisabled) => (status = "DRAFT" /\ orderId # "")
      /\ (confirmReq.st = "none" /\ confirmReq'.st = "sent")
           => (status = "DRAFT" /\ orderId # "" /\ confirmReq'.id = orderId)
    ]_vars

\* ---- read-only outside DRAFT ----
\* C11: whenever the form's status is not DRAFT (CONFIRMED, CANCELLED or the
\* not-yet-loaded null), every input, add-line, remove-line and the submit
\* button are disabled, and no step of the form is an edit or a save.
C11_NonDraftIsReadOnly ==
  [][ (mounted /\ status # "DRAFT")
        => /\ FieldsDisabled
           /\ SubmitDisabled
           /\ ~(selectCustomer \/ handleProductSelect \/ changeQuantity
                  \/ addLine \/ remove \/ onSubmit)
    ]_vars

\* ---- the lifecycle of a stored order ----
StatusMoves ==
  { <<"ABSENT", "DRAFT">>, <<"DRAFT", "CONFIRMED">>, <<"DRAFT", "CANCELLED">>,
    <<"CONFIRMED", "CANCELLED">> }

CancelReasons == {"CUSTOMER_REQUEST", "STOCK_ISSUE", "PRICING_ERROR", "DUPLICATE", "OTHER"}
\* The options the user picks in the reason select.
ReasonInputs == {"", "CUSTOMER_REQUEST", "OTHER"}
\* What the user types in the note input.
NoteTexts == {"", "precio"}

\* A listOrders call: inc is its includeCancelled, data the orders it returned.
ListSent(inc) ==
  [inc |-> inc, st |-> "sent", ok |-> FALSE, data |-> [id \in OrderIds |-> "ABSENT"]]

\* Mutant: the note is never sent.
cancelPayloadNote_Dropped(note) == NoString

\* note: cancelNote || undefined
cancelPayloadNote(note) == IF note = "" THEN NoString ELSE note

\* Mutant: every listed row offers the cancel entry.
CancelOffered_EveryRow(id) == orders[id] # "ABSENT"

\* The row of an order offers "Eliminar (cancelar)".
CancelOffered(id) == orders[id] # "ABSENT" /\ orders[id] # "CANCELLED"
\* Mutant: the action button is never disabled.
CancelActionDisabled_Never == FALSE

\* disabled={!cancelReason} of the dialog's action button
CancelActionDisabled == cancelReason = ""

OrdersFrame ==
  UNCHANGED <<validatorVars, totalsVars, viewsVars, orderIdToLoad, uiVars, reqVars>>

\* ---- the persistence collaborator ----
\* What listOrders(includeCancelled) returns.
ListedOrders(inc) ==
  [id \in OrderIds |->
     IF dbOrders[id].status = "CANCELLED" /\ ~inc THEN "ABSENT" ELSE dbOrders[id].status]

\* GET /api/orders?includeCancelled=...
ServerListOrders ==
  /\ \E r \in listReqs :
       /\ r.st = "sent"
       /\ listReqs' = (listReqs \ {r}) \cup
            {[r EXCEPT !.st = "replied", !.ok = TRUE, !.data = ListedOrders(r.inc)]}
  /\ UNCHANGED <<dbOrders, dbCancel, listVars, cancelReq>>
  /\ OrdersFrame

\* A cancel without the note its reason requires is a validation failure or
\* a lifecycle conflict.
MissingNoteCodes == {400, 409}
NoteMissing(reason, note) == reason = "OTHER" /\ note \in {NoString, ""}

CancelReplied(resp) == [cancelReq EXCEPT !.st = "replied", !.resp = resp]

\* POST /api/orders/{id}/cancel
ServerCancelOrder ==
  /\ cancelReq.st = "sent"
  /\ LET id == cancelReq.id
         st == dbOrders[id].status
     IN CASE st = "ABSENT" ->
               /\ cancelReq' = CancelReplied(ErrResp(404, "Pedido no encontrado"))
               /\ UNCHANGED <<dbOrders, dbCancel>>
          [] st = "CANCELLED" ->
               /\ \E code \in CancelledCodes :
                    cancelReq' = CancelReplied(ErrResp(code, "Pedido cancelado"))
               /\ UNCHANGED <<dbOrders, dbCancel>>
          [] st \in {"DRAFT", "CONFIRMED"} /\ cancelReq.reason \notin CancelReasons ->
               /\ cancelReq' = CancelReplied(ErrResp(400, "Motivo invalido"))
               /\ UNCHANGED <<dbOrders, dbCancel>>
          [] st \in {"DRAFT", "CONFIRMED"} /\ cancelReq.reason \in CancelReasons
               /\ NoteMissing(cancelReq.reason, cancelReq.note) ->
               /\ \E code \in MissingNoteCodes :
                    cancelReq' = CancelReplied(ErrResp(code, "La nota es requerida"))
               /\ UNCHANGED <<dbOrders, dbCancel>>
          [] OTHER ->
               /\ dbOrders' = [dbOrders EXCEPT ![id].status = "CANCELLED"]
               /\ dbCancel' = [dbCancel EXCEPT ![id] =
                                 [reason |-> cancelReq.reason, note |-> cancelReq.note]]
               /\ cancelReq' = CancelReplied(OkResp(OrderResponseOf(id, dbOrders'[id])))
  /\ UNCHANGED <<listVars, listReqs>>
  /\ OrdersFrame

\* fetch fails for a call of OrdersView.
ListTransportFailure ==
  /\ \/ /\ \E r \in listReqs :
             /\ r.st = "sent"
             /\ listReqs' = (listReqs \ {r}) \cup {[r EXCEPT !.st = "replied"]}
        /\ UNCHANGED cancelReq
     \/ /\ cancelReq.st = "sent"
        /\ cancelReq' = CancelReplied(NetworkError)
        /\ UNCHANGED listReqs
  /\ UNCHANGED <<dbOrders, dbCancel, listVars>>
  /\ OrdersFrame

\* ---- OrdersView ----
\* loadOrders up to its await; inc is the includeCancelled of its closure.
loadOrders(inc) ==
  /\ listLoading' = TRUE
  /\ listError' = ""
  /\ listReqs' = listReqs \cup {ListSent(inc)}

\* loadOrders, after the await
loadOrdersDone ==
  /\ \E r \in listReqs :
       /\ r.st = "replied"
       /\ listReqs' = listReqs \ {r}
       /\ IF r.ok
          THEN orders' = r.data /\ UNCHANGED listError
          ELSE listError' = "No se pudieron cargar los pedidos" /\ UNCHANGED orders
  /\ listLoading' = FALSE
  /\ UNCHANGED <<dbOrders, dbCancel, includeCancelled, cancelTarget, cancelReason,
                 cancelNote, toast, cancelReq>>
  /\ OrdersFrame

\* The "Incluir cancelados" checkbox and the effect on includeCancelled.
toggleIncludeCancelled ==
  /\ Cardinality(listReqs) < MaxListRequests
  /\ includeCancelled' = ~includeCancelled
  /\ loadOrders(includeCancelled')
  /\ UNCHANGED <<dbOrders, dbCancel, orders, cancelTarget, cancelReason, cancelNote, toast,
                 cancelReq>>
  /\ OrdersFrame

\* "Eliminar (cancelar)" of a row: setCancelTarget(order)
openCancelDialog ==
  /\ cancelTarget = ""
  /\ \E id \in OrderIds :
       /\ CancelOffered(id)
       /\ cancelTarget' = id
  /\ UNCHANGED <<dbOrders, dbCancel, orders, listLoading, listError, includeCancelled,
                 cancelReason, cancelNote, toast, listReqs, cancelReq>>
  /\ OrdersFrame

\* onOpenChange of the dialog ("Volver", Escape): setCancelTarget(null)
onOpenChange ==
  /\ cancelTarget # ""
  /\ cancelTarget' = ""
  /\ UNCHANGED <<dbOrders, dbCancel, orders, listLoading, listError, includeCancelled,
                 cancelReason, cancelNote, toast, listReqs, cancelReq>>
  /\ OrdersFrame

\* The reason select
selectReason ==
  /\ cancelTarget # ""
  /\ \E reason \in ReasonInputs : cancelReason' = reason
  /\ UNCHANGED <<dbOrders, dbCancel, orders, listLoading, listError, includeCancelled,
                 cancelTarget, cancelNote, toast, listReqs, cancelReq>>
  /\ OrdersFrame

\* The note input, rendered while the reason is OTHER
changeNote ==
  /\ cancelTarget # ""
  /\ cancelReason = "OTHER"
  /\ \E text \in NoteTexts : cancelNote' = text
  /\ UNCHANGED <<dbOrders, dbCancel, orders, listLoading, listError, includeCancelled,
                 cancelTarget, cancelReason, toast, listReqs, cancelReq>>
  /\ OrdersFrame

\* handleCancelOrder up to its await.
handleCancelOrder ==
  IF cancelTarget = "" \/ cancelReason = ""
  THEN UNCHANGED cancelReq
  ELSE cancelReq' = [NoCancelReq EXCEPT !.st = "sent", !.id = cancelTarget,
                       !.reason = cancelReason, !.note = cancelPayloadNote(cancelNote),
                       !.inc = includeCancelled]

\* The dialog's action button, while no cancellation is awaited; the dialog
\* closes with the click or stays open.
clickCancelOrder ==
  /\ cancelTarget # ""
  /\ ~CancelActionDisabled
  /\ cancelReq.st = "none"
  /\ handleCancelOrder
  /\ cancelTarget' \in {cancelTarget, ""}
  /\ UNCHANGED <<dbOrders, dbCancel, orders, listLoading, listError, includeCancelled,
                 cancelReason, cancelNote, toast, listReqs>>
  /\ OrdersFrame

\* The catch of handleCancelOrder: the toast it shows.
handleCancelOrderCatch(err) == [kind |-> "error", text |-> err.message]

\* handleCancelOrder, after the await
handleCancelOrderDone ==
  /\ cancelReq.st = "replied"
  /\ cancelReq' = NoCancelReq
  /\ IF cancelReq.resp.ok
     THEN /\ toast' = [kind |-> "success", text |-> "Pedido cancelado"]
          /\ cancelTarget' = ""
          /\ cancelReason' = ""
          /\ cancelNote' = ""
          /\ loadOrders(cancelReq.inc)
     ELSE /\ toast' = handleCancelOrderCatch(cancelReq.resp)
          /\ UNCHANGED <<cancelTarget, cancelReason, cancelNote, listLoading, listError,
                         listReqs>>
  /\ UNCHANGED <<dbOrders, dbCancel, orders, includeCancelled>>
  /\ OrdersFrame

OrdersInit ==
  /\ dbOrders \in { db \in [OrderIds -> {NoOrder} \cup
                       { [status |-> st, values |-> payloadOf(SavedValues),
                          totals |-> computeOrderTotals(payloadOf(SavedValues).lines)] :
                         st \in {"DRAFT", "CONFIRMED", "CANCELLED"} }] :
                      \A id \in OrderIds \ {FirstId} : db[id] = NoOrder }
  /\ dbCancel = [id \in OrderIds |->
                   IF dbOrders[id].status = "CANCELLED"
                   THEN [reason |-> "DUPLICATE", note |-> NoString] ELSE NoCancel]
  /\ orders = [id \in OrderIds |-> "ABSENT"]
  /\ listLoading = TRUE
  /\ listError = ""
  /\ includeCancelled = FALSE
  /\ cancelTarget = ""
  /\ cancelReason = ""
  /\ cancelNote = ""
  /\ toast = NoToast
  /\ listReqs = {ListSent(FALSE)}
  /\ cancelReq = NoCancelReq
  /\ orderIdToLoad = "" /\ mounted = FALSE /\ products = {} /\ orderId = ""
  /\ orderNumber = "" /\ status = "DRAFT" /\ loading = FALSE /\ apiError = ""
  /\ formValues = NoPayload
  /\ catalogReq = NoReq /\ loadReq = NoReq /\ saveReq = NoReq /\ confirmReq = NoReq
  /\ ValidatorIdle
  /\ TotalsIdle
  /\ ViewsIdle
  /\ view = "orders"

OrdersNext ==
  \/ ServerListOrders
  \/ ServerCancelOrder
  \/ ListTransportFailure
  \/ loadOrdersDone
  \/ toggleIncludeCancelled
  \/ openCancelDialog
  \/ onOpenChange
  \/ selectReason
  \/ changeNote
  \/ clickCancelOrder
  \/ handleCancelOrderDone

SpecOrders == OrdersInit /\ [][OrdersNext]_vars

\* ---- cancelling from the orders list ----
\* The collaborator answered the awaited cancelOrder (no transport failure).
CancelAnswered ==
  /\ cancelReq.st = "sent"
  /\ cancelReq'.st = "replied"
  /\ cancelReq'.resp # NetworkError

\* handleCancelOrder sends its request in this step.
CancelSent == cancelReq.st = "none" /\ cancelReq'.st = "sent"

Cancellable(id) == dbOrders[id].status \in {"DRAFT", "CONFIRMED"}

\* C13: a cancel with reason OTHER and an empty or absent note is rejected
\* and leaves the order's status, cancelReason and cancelNote unchanged; with
\* reason OTHER and a non-empty note it succeeds and records CANCELLED, OTHER
\* and exactly that note; for the other reasons it succeeds with or without a
\* note; and the request carries the dialog's reason and its note as typed
\* (absent when empty).
C13_OtherRequiresNote ==
  [][ /\ CancelSent
           => /\ cancelReq'.id = cancelTarget
              /\ cancelReq'.reason = cancelReason
              /\ cancelReq'.note = (IF cancelNote = "" THEN NoString ELSE cancelNote)
      /\ (CancelAnswered /\ cancelReq.reason = "OTHER"
            /\ cancelReq.note \in {NoString, ""})
           => /\ ~cancelReq'.resp.ok
              /\ dbOrders' = dbOrders
              /\ dbCancel' = dbCancel
      /\ (CancelAnswered /\ Cancellable(cancelReq.id) /\ cancelReq.reason = "OTHER"
            /\ cancelReq.note \notin {NoString, ""})
           => /\ cancelReq'.resp.ok
              /\ dbOrders'[cancelReq.id].status = "CANCELLED"
              /\ dbCancel'[cancelReq.id] = [reason |-> "OTHER", note |-> cancelReq.note]
      /\ (CancelAnswered /\ Cancellable(cancelReq.id)
            /\ cancelReq.reason \in CancelReasons \ {"OTHER"})
           => /\ cancelReq'.resp.ok
              /\ dbOrders'[cancelReq.id].status = "CANCELLED"
              /\ dbCancel'[cancelReq.id] =
                   [reason |-> cancelReq.reason, note |-> cancelReq.note]
    ]_vars

\* A cancel of a cancellable order with reason OTHER and no note has been
\* rejected.
C13_Witness ==
  /\ Cancellable(FirstId)
  /\ cancelReq.st = "replied"
  /\ cancelReq.id = FirstId
  /\ ~cancelReq.resp.ok
  /\ cancelReq.resp.message = "La nota es requerida"
  /\ cancelReq.reason = "OTHER"
  /\ cancelReq.note = NoString

\* C14: a cancel request only ever carries a reason of the enumeration; while
\* no reason is selected the action button is disabled and no request is
\* sent.
C14_ReasonFromEnumeration ==
  [][ /\ cancelReason \in {""} \cup CancelReasons
      /\ cancelReq.st # "none" => cancelReq.reason \in CancelReasons
      /\ CancelSent => cancelReq'.reason \in CancelReasons
      /\ cancelReason = "" => (CancelActionDisabled /\ ~CancelSent)
    ]_vars

\* A cancel request is awaited, and the dialog is open again with no reason.
C14_Witness ==
  /\ cancelReq.st = "sent"
  /\ cancelReq.reason \in CancelReasons
  /\ cancelTarget # ""
  /\ cancelReason = ""

\* C15: the cancel entry exists exactly for the listed rows whose status is
\* DRAFT or CONFIRMED, and the cancel dialog only ever opens for such a row.
C15_NoCancelFromCancelledRow ==
  [][ /\ \A id \in OrderIds : CancelOffered(id) <=> orders[id] \in {"DRAFT", "CONFIRMED"}
      /\ \A id \in OrderIds :
           (cancelTarget = "" /\ cancelTarget' = id) => orders[id] \in {"DRAFT", "CONFIRMED"}
    ]_vars

\* A CANCELLED order is listed, with the row menus at hand.
C15_Witness ==
  /\ orders[FirstId] = "CANCELLED"
  /\ cancelTarget = ""
  /\ cancelReq.st = "none"

\* C16: a cancel rejected by a lifecycle guard (409) is surfaced differently
\* from the same rejection reported as not found, as an unknown error or as a
\* transport failure.
C16_ConflictIsDistinctSignal ==
  (cancelReq.st = "replied" /\ ~cancelReq.resp.ok /\ cancelReq.resp.status = 409)
    => \A code \in {0, 404, 500} :
         handleCancelOrderCatch(cancelReq.resp)
           # handleCancelOrderCatch([cancelReq.resp EXCEPT !.status = code])

\* ---- failed attempts ----
\* The form resumes onSubmit, or handleConfirm, with a failure.
SaveFailed == mounted /\ saveReq.st = "replied" /\ ~saveReq.resp.ok /\ saveReq' = NoReq
ConfirmFailed ==
  mounted /\ confirmReq.st = "replied" /\ ~confirmReq.resp.ok /\ confirmReq' = NoReq

\* What a failed create, update or confirm leaves as it was, the form's
\* status apart: the stored orders, and the form's orderId, orderNumber and
\* values.
FailureKeepsOrder ==
  /\ (saveReq.st = "sent" /\ saveReq'.st = "replied" /\ ~saveReq'.resp.ok)
       => dbOrders' = dbOrders
  /\ (confirmReq.st = "sent" /\ confirmReq'.st = "replied" /\ ~confirmReq'.resp.ok)
       => dbOrders' = dbOrders
  /\ (SaveFailed \/ ConfirmFailed)
       => /\ orderId' = orderId
          /\ orderNumber' = orderNumber
          /\ formValues' = formValues
          /\ dbOrders' = dbOrders

UnitPrices(lines) == [k \in 1..Len(lines) |-> lines[k].unitPrice]

\* The form consumes the order of an ok response of load, save or confirm.
ResponseOrders ==
  {r.resp.order : r \in {q \in {loadReq, saveReq, confirmReq} : q.st = "replied" /\ q.resp.ok}}
ConsumesResponse ==
  /\ mounted
  /\ \/ loadReq.st = "replied" /\ loadReq.resp.ok /\ loadReq' = NoReq
     \/ saveReq.st = "replied" /\ saveReq.resp.ok /\ saveReq' = NoReq
     \/ confirmReq.st = "replied" /\ confirmReq.resp.ok /\ confirmReq' = NoReq

\* C18: a line's unitPrice is read from the catalog only when a product is
\* selected for it. The form takes the prices of a loaded, saved or confirmed
\* order from the response; a save sends the form's prices; the collaborator
\* stores the prices sent and returns the stored ones, and a confirm leaves
\* them as stored; no other step changes a price of the form.
C18_UnitPriceCaptured ==
  [][ /\ ConsumesResponse
           => \E o \in ResponseOrders :
                UnitPrices(formValues'.lines) = UnitPrices(o.values.lines)
      /\ (saveReq.st = "none" /\ saveReq'.st = "sent")
           => UnitPrices(saveReq'.payload.lines)
                = [k \in 1..Len(formValues.lines) |-> ToNumber(formValues.lines[k].unitPrice)]
      /\ (saveReq.st = "sent" /\ saveReq'.st = "replied" /\ saveReq'.resp.ok)
           => /\ saveReq'.resp.order.values.lines = saveReq.payload.lines
              /\ dbOrders'[saveReq'.resp.order.id].values.lines = saveReq.payload.lines
      /\ (loadReq.st = "sent" /\ loadReq'.st = "replied" /\ loadReq'.resp.ok)
           => /\ loadReq'.resp.order.values = dbOrders[loadReq.id].values
              /\ dbOrders' = dbOrders
      /\ (confirmReq.st = "sent" /\ confirmReq'.st = "replied" /\ confirmReq'.resp.ok)
           => /\ confirmReq'.resp.order.values = dbOrders[confirmReq.id].values
              /\ dbOrders'[confirmReq.id].values = dbOrders[confirmReq.id].values
      /\ (~ConsumesResponse /\ ~handleProductSelect /\ ~addLine /\ ~remove)
           => UnitPrices(formValues'.lines) = UnitPrices(formValues.lines)
      /\ addLine
           => UnitPrices(formValues'.lines)
                = Append(UnitPrices(formValues.lines), Num(0, 1))
      /\ handleProductSelect
           => \A k \in 1..Len(formValues.lines) :
                formValues'.lines[k].unitPrice
                  \in {formValues.lines[k].unitPrice,
                       basePrice(formValues'.lines[k].productId)}
    ]_vars

\* An order saved at price 8 has been loaded and re-saved with the catalog
\* at basePrice 10: the form and the stored order still hold 8.
C18_Witness ==
  /\ mounted
  /\ products = CatalogProducts
  /\ orderId = FirstId
  /\ saveReq = NoReq
  /\ Len(formValues.lines) = 1
  /\ formValues.lines[1].productId = "p1"
  /\ formValues.lines[1].unitPrice = Num(8, 1)
  /\ basePrice("p1") # Num(8, 1)
  /\ dbOrders[FirstId].values # payloadOf(SavedValues)
  /\ dbOrders[FirstId].values.lines[1].unitPrice = Num(8, 1)

\* ---- the order number ----
PayloadKeys == {"customerId", "orderDate", "deliveryDate", "lines"}
LineKeys == {"productId", "quantity", "unitPrice", "discountPct"}

\* C19: a create or update payload carries the customer, the dates and the
\* lines and nothing else (no orderNumber, id or status), and the form's
\* orderNumber changes only when the form takes it from the ok response of a
\* load or a save; it is empty or the number the collaborator assigned to the
\* form's order.
C19_OrderNumberFromCollaborator ==
  [][ /\ (saveReq.st = "none" /\ saveReq'.st = "sent")
           => /\ DOMAIN saveReq'.payload = PayloadKeys
              /\ \A k \in 1..Len(saveReq'.payload.lines) :
                   DOMAIN saveReq'.payload.lines[k] = LineKeys
      /\ orderNumber' # orderNumber
           => /\ mounted
              /\ \/ /\ loadReq.st = "replied" /\ loadReq.resp.ok /\ loadReq' = NoReq
                    /\ orderNumber' = loadReq.resp.order.orderNumber
                 \/ /\ saveReq.st = "replied" /\ saveReq.resp.ok /\ saveReq' = NoReq
                    /\ orderNumber' = saveReq.resp.order.orderNumber
      /\ orderNumber # "" => (orderId # "" /\ orderNumber = orderNumberOf(orderId))
    ]_vars

\* The form holds the number of an order it created and is saving it again.
C19_Witness ==
  /\ mounted
  /\ orderIdToLoad = ""
  /\ orderNumber # ""
  /\ saveReq.st = "sent"
  /\ saveReq.id = orderId

\* ---- the order id ----
\* C20: a save sends createOrder exactly while the form has no orderId and
\* otherwise updateOrder with the form's orderId; the orderId is set only by
\* the ok response of the form's create (or of its load), is kept once set,
\* and is left empty by a failed create.
C20_IdAssignedOnceAndKept ==
  [][ /\ (saveReq.st = "none" /\ saveReq'.st = "sent") => saveReq'.id = orderId
      /\ orderId # "" => orderId' = orderId
      /\ orderId' # orderId
           => /\ mounted
              /\ \/ /\ saveReq.st = "replied" /\ saveReq.resp.ok /\ saveReq.id = ""
                    /\ orderId' = saveReq.resp.order.id
                 \/ /\ loadReq.st = "replied" /\ loadReq.resp.ok
                    /\ orderId' = loadReq.resp.order.id
      /\ SaveFailed => orderId' = orderId
    ]_vars

\* ---- no automatic retry ----
\* A request of the form or of the orders list goes out in this step.
SaveSent == saveReq.st # "sent" /\ saveReq'.st = "sent"
ConfirmSent == confirmReq.st # "sent" /\ confirmReq'.st = "sent"
ListSentNow == { r \in listReqs' \ listReqs : r.st = "sent" }
FormRequests == <<catalogReq, loadReq, saveReq, confirmReq>>

C22_ExistingOrderNeverCreated ==
  orderIdToLoad # ""
    => /\ (mounted /\ ~SubmitDisabled) => orderId = orderIdToLoad
       /\ saveReq.st # "none" => saveReq.id = orderIdToLoad

\* ---- the single loading flag ----
\* A request of the form is awaited: sent, or answered and not yet taken.
InFlight(req) == req.st # "none"
AnyInFlight == \E k \in 1..4 : InFlight(FormRequests[k])

\* C23: while any request of the form is in flight loading is true; while
\* the load of the order is pending the inputs and the submit button are
\* disabled; and the step that takes the load's response leaves the values
\* alone when the user has changed them since the form was opened.
C23_LoadingCoversEveryRequest ==
  [][ /\ (mounted /\ AnyInFlight) => loading
      /\ (mounted /\ InFlight(loadReq)) => (FieldsDisabled /\ SubmitDisabled)
      /\ (mounted /\ loadReq.st = "replied" /\ loadReq' = NoReq
            /\ formValues # defaultValues)
           => formValues' = formValues
    ]_vars

\* ---- the list and the filter ----
\* loadOrders takes the response r and no listOrders is in flight afterwards.
TakesLastResponse(r) == r \in listReqs /\ r.st = "replied" /\ listReqs' = {}

\* C24: the response displayed by the step after which no listOrders is in
\* flight is the response of a request made with the current includeCancelled,
\* and while no listOrders is in flight, no load has failed and the filter is
\* off, no CANCELLED order is displayed.
C24_ListMatchesFilter ==
  [][ /\ \A r \in listReqs :
           (TakesLastResponse(r) /\ r.ok) => r.inc = includeCancelled'
      /\ (listReqs = {} /\ listError = "" /\ ~includeCancelled)
           => \A id \in OrderIds : orders[id] # "CANCELLED"
    ]_vars

\* ---- the status the form shows ----
\* The form takes the status of the order of an ok response in this step.
TakesStatusOf(req, req2) ==
  /\ req.st = "replied" /\ req.resp.ok /\ req2 = NoReq
  /\ status' = req.resp.order.status

\* C25: the form's status changes only to the status of the order in an ok
\* response of its load, save or confirm, or to CONFIRMED after a save the
\* collaborator rejected because the order was CONFIRMED; and a form showing
\* CANCELLED is read-only.
C25_StatusIsTheCollaborators ==
  [][ /\ status' # status
           => /\ mounted
              /\ \/ TakesStatusOf(loadReq, loadReq')
                 \/ TakesStatusOf(saveReq, saveReq')
                 \/ TakesStatusOf(confirmReq, confirmReq')
                 \/ /\ SaveRejected /\ saveReq' = NoReq
                    /\ status' = "CONFIRMED"
                    /\ saveReq.resp.message = "Pedido confirmado"
      /\ (mounted /\ status = "CANCELLED") => (FieldsDisabled /\ SubmitDisabled)
    ]_vars

\* ---- the cancel dialog's inputs ----
\* C26: the step that opens the cancel dialog for an order leaves it with an
\* empty reason and an empty note.
C26_DialogOpensEmpty ==
  [][ (cancelTarget = "" /\ cancelTarget' # "")
        => (cancelReason' = "" /\ cancelNote' = "")
    ]_vars

(***************************************************************************)
(* OrdersView's rows: the loaded orders filtered by the search.  Texts are *)
(* sequences of characters.                                                *)
(***************************************************************************)
\* The orders a listOrders response may hold, with the texts searched.
RowOrderIds == {"o1", "o2", "o3"}
orderNumberText(id) ==
  CASE id = "o1" -> <<"S", "O", "-", "1">>
    [] id = "o2" -> <<"S", "O", "-", "2">>
    [] OTHER -> <<"S", "O", "-", "3">>
customerNameText(id) ==
  CASE id = "o1" -> <<"A", "n", "a">>
    [] id = "o2" -> <<"S", "o", "l">>
    [] OTHER -> <<"N", "o", "a">>
\* What the user types in the search input.
SearchTerms == {<<>>, <<"s", "o">>, <<"S", "O">>, <<"1">>, <<"a">>, <<"x">>}
SearchFields == {"order", "customer"}

\* String.prototype.toLowerCase, character by character
toLowerCase(text) ==
  [k \in 1..Len(text) |->
     CASE text[k] = "A" -> "a" [] text[k] = "N" -> "n" [] text[k] = "O" -> "o"
       [] text[k] = "S" -> "s" [] OTHER -> text[k]]

\* String.prototype.includes
includes(text, term) ==
  \E i \in 0..(Len(text) - Len(term)) : SubSeq(text, i + 1, i + Len(term)) = term

\* The callback of orders.filter in rows
rowMatches(id, term, field) ==
  LET lowered == toLowerCase(term)
  IN IF lowered = <<>> THEN TRUE
     ELSE IF field = "order" THEN includes(toLowerCase(orderNumberText(id)), lowered)
     ELSE includes(toLowerCase(customerNameText(id)), lowered)

\* useMemo(..., [orders, search]): computed anew when a dependency changed,
\* else the rows of the previous render.
rowsMemo(changed, loaded, term, field) ==
  IF changed THEN { id \in loaded : rowMatches(id, term, field) } ELSE rows

RowsFrame ==
  UNCHANGED <<validatorVars, totalsVars, formVars, ordersVars, requestVars, customerVars, view>>

\* setOrders(data) of loadOrders: a new array each time
setOrders ==
  /\ \E data \in SUBSET RowOrderIds :
       /\ rOrders' = data
       /\ rows' = rowsMemo(TRUE, data, search, searchField)
  /\ UNCHANGED <<search, searchField>>
  /\ RowsFrame

\* The search input: setSearch(e.target.value)
setSearch ==
  /\ \E term \in SearchTerms :
       /\ search' = term
       /\ rows' = rowsMemo(term # search, rOrders, term, searchField)
  /\ UNCHANGED <<rOrders, searchField>>
  /\ RowsFrame

\* "Por orden" / "Por cliente": setSearchField
setSearchField ==
  /\ \E field \in SearchFields :
       /\ searchField' = field
       /\ rows' = rowsMemo(FALSE, rOrders, search, field)
  /\ UNCHANGED <<rOrders, search>>
  /\ RowsFrame

RowsInit ==
  /\ rOrders = {}
  /\ search = <<>>
  /\ searchField = "order"
  /\ rows = {}
  /\ ValidatorIdle
  /\ TotalsIdle
  /\ FormIdle
  /\ OrdersIdle
  /\ RequestIdle
  /\ CustomerIdle
  /\ view = "orders"

RowsNext ==
  \/ setOrders
  \/ setSearch
  \/ setSearchField

SpecRows == RowsInit /\ [][RowsNext]_vars

\* C27: the displayed rows are exactly the loaded orders whose orderNumber
\* (search field "order") or customerName (search field "customer") contains
\* the search term case-insensitively, all of them when the term is empty.
C27_RowsAreTheMatchingOrders ==
  rows = { id \in rOrders :
             \/ search = <<>>
             \/ /\ searchField = "order"
                /\ includes(toLowerCase(orderNumberText(id)), toLowerCase(search))
             \/ /\ searchField = "customer"
                /\ includes(toLowerCase(customerNameText(id)), toLowerCase(search)) }

(***************************************************************************)
(* request() on its own: every outcome of fetch of the bounded input sets  *)
(* is handed to it.                                                        *)
(***************************************************************************)
StatusInputs == {200, 201, 204, 400, 404, 409, 422, 500, 503}
JsonInputs ==
  { JsonNull,
    [t |-> "string", message |-> Undefined],
    [t |-> "object", message |-> Undefined],
    [t |-> "object", message |-> Str("")],
    [t |-> "object", message |-> Str("Pedido confirmado")] }
\* Response.ok
ResponseOk(code) == code >= 200 /\ code <= 299
FetchInputs ==
  { [settled |-> "rejected", ok |-> FALSE, status |-> 0, parses |-> FALSE, json |-> JsonNull] }
    \cup { [settled |-> "response", ok |-> ResponseOk(code), status |-> code,
             parses |-> FALSE, json |-> JsonNull] : code \in StatusInputs }
    \cup { [settled |-> "response", ok |-> ResponseOk(code), status |-> code,
             parses |-> TRUE, json |-> j] : code \in StatusInputs, j \in JsonInputs }

\* data = await response.json(), null when that throws
parsedBody(f) == IF f.parses THEN f.json ELSE JsonNull

\* Mutant: the error's message is the body's message, whatever it is.
request_NoDefaultMessage(f) ==
  IF f.settled = "rejected"
  THEN [NoResult EXCEPT !.kind = "throw", !.message = "Failed to fetch"]
  ELSE IF ~f.ok
       THEN [kind |-> "throw", data |-> JsonNull,
             message |-> parsedBody(f).message.s,
             status |-> f.status, body |-> parsedBody(f)]
       ELSE [kind |-> "return", data |-> parsedBody(f), message |-> "", status |-> 0,
             body |-> JsonNull]

\* request(path, options), given what fetch gave
request(f) ==
  IF f.settled = "rejected"
  THEN [NoResult EXCEPT !.kind = "throw", !.message = "Failed to fetch"]
  ELSE IF ~f.ok
       THEN [kind |-> "throw", data |-> JsonNull,
             message |-> IF Truthy(parsedBody(f).message) THEN parsedBody(f).message.s
                         ELSE "Error inesperado",
             status |-> f.status, body |-> parsedBody(f)]
       ELSE [kind |-> "return", data |-> parsedBody(f), message |-> "", status |-> 0,
             body |-> JsonNull]

RequestInit ==
  /\ qFetch \in FetchInputs
  /\ qResult = NoResult
  /\ qDone = FALSE
  /\ ValidatorIdle
  /\ TotalsIdle
  /\ FormIdle
  /\ OrdersIdle
  /\ RowsIdle
  /\ CustomerIdle
  /\ view = "none"

RunRequest ==
  /\ ~qDone
  /\ qResult' = request(qFetch)
  /\ qDone' = TRUE
  /\ UNCHANGED <<qFetch, validatorVars, totalsVars, formVars, ordersVars, rowsVars, customerVars,
                 view>>

RequestNext == RunRequest

SpecRequest == RequestInit /\ [][RequestNext]_vars

\* The body has a message: a non-empty string member of an object.
HasMessage(json) == json.t = "object" /\ json.message.t = "string" /\ json.message.s # ""

\* C29: for a Response, request returns exactly when ok is true, and then
\* the parsed body; for a non-ok Response it throws an error carrying the
\* status code, the parsed body, and the body's message or "Error inesperado"
\* when the body has none; a body that does not parse counts as null in both
\* cases.
C29_RequestThrowsOnNonOk ==
  (qDone /\ qFetch.settled = "response")
    => LET body == IF qFetch.parses THEN qFetch.json ELSE JsonNull
       IN /\ qResult.kind = "return" <=> qFetch.ok
          /\ qFetch.ok => qResult.data = body
          /\ ~qFetch.ok
               => /\ qResult.kind = "throw"
                  /\ qResult.status = qFetch.status
                  /\ qResult.body = body
                  /\ qResult.message =
                       (IF HasMessage(body) THEN body.message.s ELSE "Error inesperado")

\* A 500 whose body is not JSON has been thrown as "Error inesperado".
C29_Witness ==
  /\ qDone
  /\ qFetch.settled = "response"
  /\ qFetch.status = 500
  /\ ~qFetch.parses
  /\ qResult.kind = "throw"
  /\ qResult.message = "Error inesperado"
  /\ qResult.body = JsonNull

(***************************************************************************)
(* CustomerView: the customers list, its form and its delete dialog.       *)
(***************************************************************************)
\* What request() gives a caller, over every outcome of fetch: whether it
\* returned, and the message of the error it threw.
CallOutcomes ==
  { [ok |-> request(f).kind = "return", message |-> request(f).message] : f \in FetchInputs }

CallSent(id) == [NoCall EXCEPT !.st = "sent", !.id = id]
CallReplied(call, outcome) ==
  [call EXCEPT !.st = "replied", !.ok = outcome.ok, !.message = outcome.message]

\* The id the collaborator gives a created customer.
CreatedCustomer == "c2"

CustomerFrame ==
  UNCHANGED <<validatorVars, totalsVars, formVars, ordersVars, rowsVars, requestVars, view>>

\* getCustomers settles.
getCustomersSettles ==
  /\ cvLoadReq.st = "sent"
  /\ \E outcome \in CallOutcomes : cvLoadReq' = CallReplied(cvLoadReq, outcome)
  /\ UNCHANGED <<cvLoading, cvError, customers, selectedCustomer, confirmDelete, cvSaveReq,
                 cvDeleteReq>>
  /\ CustomerFrame

\* createCustomer / updateCustomer settles.
saveCustomerSettles ==
  /\ cvSaveReq.st = "sent"
  /\ \E outcome \in CallOutcomes : cvSaveReq' = CallReplied(cvSaveReq, outcome)
  /\ UNCHANGED <<cvLoading, cvError, customers, selectedCustomer, confirmDelete, cvLoadReq,
                 cvDeleteReq>>
  /\ CustomerFrame

\* deleteCustomer settles.
deleteCustomerSettles ==
  /\ cvDeleteReq.st = "sent"
  /\ \E outcome \in CallOutcomes : cvDeleteReq' = CallReplied(cvDeleteReq, outcome)
  /\ UNCHANGED <<cvLoading, cvError, customers, selectedCustomer, confirmDelete, cvLoadReq,
                 cvSaveReq>>
  /\ CustomerFrame

\* load of the mount effect, after the await
customersLoadDone ==
  /\ cvLoadReq.st = "replied"
  /\ cvLoadReq' = NoCall
  /\ IF cvLoadReq.ok
     THEN customers' = CatalogCustomers /\ UNCHANGED cvError
     ELSE cvError' = "No se pudieron cargar los clientes" /\ UNCHANGED customers
  /\ cvLoading' = FALSE
  /\ UNCHANGED <<selectedCustomer, confirmDelete, cvSaveReq, cvDeleteReq>>
  /\ CustomerFrame

\* disabled={!isValid || isSubmitting || loading} of "Guardar cliente", the
\* typed values being valid
SaveCustomerDisabled == cvSaveReq.st # "none" \/ cvLoading

\* onSubmit of CustomerView up to its await.
customerOnSubmit ==
  /\ ~SaveCustomerDisabled
  /\ cvError' = ""
  /\ cvLoading' = TRUE
  /\ cvSaveReq' = CallSent(selectedCustomer)
  /\ UNCHANGED <<customers, selectedCustomer, confirmDelete, cvLoadReq, cvDeleteReq>>
  /\ CustomerFrame

\* Mutant: the catch of CustomerView's onSubmit returns before the flag is reset.
customerOnSubmitDone_KeepsLoading ==
  /\ cvSaveReq.st = "replied"
  /\ cvSaveReq' = NoCall
  /\ IF cvSaveReq.ok
     THEN /\ customers' = IF cvSaveReq.id = "" THEN customers \cup {CreatedCustomer}
                           ELSE customers
          /\ selectedCustomer' = ""
          /\ cvLoading' = FALSE
          /\ UNCHANGED cvError
     ELSE /\ cvError' = cvSaveReq.message
          /\ UNCHANGED <<customers, selectedCustomer, cvLoading>>
  /\ UNCHANGED <<confirmDelete, cvLoadReq, cvDeleteReq>>
  /\ CustomerFrame

\* onSubmit of CustomerView, after the await
customerOnSubmitDone ==
  /\ cvSaveReq.st = "replied"
  /\ cvSaveReq' = NoCall
  /\ IF cvSaveReq.ok
     THEN /\ customers' = IF cvSaveReq.id = "" THEN customers \cup {CreatedCustomer}
                           ELSE customers
          /\ selectedCustomer' = ""
          /\ UNCHANGED cvError
     ELSE /\ cvError' = cvSaveReq.message
          /\ UNCHANGED <<customers, selectedCustomer>>
  /\ cvLoading' = FALSE
  /\ UNCHANGED <<confirmDelete, cvLoadReq, cvDeleteReq>>
  /\ CustomerFrame

\* "Ver / Editar" of a row: setSelectedCustomer(c)
editCustomer ==
  /\ \E c \in customers :
       /\ c # selectedCustomer
       /\ selectedCustomer' = c
  /\ UNCHANGED <<cvLoading, cvError, customers, confirmDelete, cvLoadReq, cvSaveReq,
                 cvDeleteReq>>
  /\ CustomerFrame

\* "Nuevo cliente": setSelectedCustomer(null)
newCustomer ==
  /\ selectedCustomer # ""
  /\ ~cvLoading
  /\ selectedCustomer' = ""
  /\ UNCHANGED <<cvLoading, cvError, customers, confirmDelete, cvLoadReq, cvSaveReq,
                 cvDeleteReq>>
  /\ CustomerFrame

\* "Eliminar" of a row: setConfirmDelete(c)
openDeleteDialog ==
  /\ confirmDelete = ""
  /\ \E c \in customers : confirmDelete' = c
  /\ UNCHANGED <<cvLoading, cvError, customers, selectedCustomer, cvLoadReq, cvSaveReq,
                 cvDeleteReq>>
  /\ CustomerFrame

\* onOpenChange of the delete dialog: setConfirmDelete(null)
closeDeleteDialog ==
  /\ confirmDelete # ""
  /\ confirmDelete' = ""
  /\ UNCHANGED <<cvLoading, cvError, customers, selectedCustomer, cvLoadReq, cvSaveReq,
                 cvDeleteReq>>
  /\ CustomerFrame

\* The delete dialog's action button up to its await, while no deletion is
\* awaited; the dialog closes with the click or stays open.
clickDeleteCustomer ==
  /\ confirmDelete # ""
  /\ cvDeleteReq.st = "none"
  /\ cvDeleteReq' = CallSent(confirmDelete)
  /\ confirmDelete' \in {confirmDelete, ""}
  /\ UNCHANGED <<cvLoading, cvError, customers, selectedCustomer, cvLoadReq, cvSaveReq>>
  /\ CustomerFrame

\* The delete handler, after the await
deleteCustomerDone ==
  /\ cvDeleteReq.st = "replied"
  /\ cvDeleteReq' = NoCall
  /\ customers' = IF cvDeleteReq.ok THEN customers \ {cvDeleteReq.id} ELSE customers
  /\ confirmDelete' = ""
  /\ UNCHANGED <<cvLoading, cvError, selectedCustomer, cvLoadReq, cvSaveReq>>
  /\ CustomerFrame

CustomerInit ==
  /\ cvLoading = TRUE
  /\ cvError = ""
  /\ customers = {}
  /\ selectedCustomer = ""
  /\ confirmDelete = ""
  /\ cvLoadReq = CallSent("")
  /\ cvSaveReq = NoCall
  /\ cvDeleteReq = NoCall
  /\ ValidatorIdle
  /\ TotalsIdle
  /\ FormIdle
  /\ OrdersIdle
  /\ RowsIdle
  /\ RequestIdle
  /\ view = "customers"

CustomerNext ==
  \/ getCustomersSettles
  \/ saveCustomerSettles
  \/ deleteCustomerSettles
  \/ customersLoadDone
  \/ customerOnSubmit
  \/ customerOnSubmitDone
  \/ editCustomer
  \/ newCustomer
  \/ openDeleteDialog
  \/ closeDeleteDialog
  \/ clickDeleteCustomer
  \/ deleteCustomerDone

(***************************************************************************)
(* Every request completes.  One of the three views is on screen; fetch    *)
(* settles (the collaborator answers or the transport fails) and the       *)
(* awaiting handler is resumed.  The user opens, saves, confirms, cancels, *)
(* toggles the filter and picks the customer, the product and the cancel   *)
(* reason.                                                                 *)
(***************************************************************************)
LiveInit == FormInit \/ OrdersInit \/ CustomerInit

\* The handlers of the component on screen and the answers to its requests.
LiveNext ==
  \/ view = "form" /\ ServerGetOrder
  \/ view = "form" /\ ServerCreateOrder
  \/ view = "form" /\ ServerUpdateOrder
  \/ view = "form" /\ ServerConfirmOrder
  \/ view = "form" /\ ServerCatalogs
  \/ view = "form" /\ TransportFailure
  \/ view = "form" /\ OtherClientConfirms
  \/ view = "form" /\ OtherClientCancels
  \/ view = "form" /\ loadCatalogsDone
  \/ view = "form" /\ loadDone
  \/ view = "form" /\ onSubmit
  \/ view = "form" /\ onSubmitDone
  \/ view = "form" /\ clickConfirm
  \/ view = "form" /\ handleConfirmDone
  \/ view = "form" /\ onBack
  \/ view = "form" /\ selectCustomer
  \/ view = "form" /\ handleProductSelect
  \/ view = "orders" /\ ServerListOrders
  \/ view = "orders" /\ ServerCancelOrder
  \/ view = "orders" /\ ListTransportFailure
  \/ view = "orders" /\ loadOrdersDone
  \/ view = "orders" /\ toggleIncludeCancelled
  \/ view = "orders" /\ openCancelDialog
  \/ view = "orders" /\ onOpenChange
  \/ view = "orders" /\ selectReason
  \/ view = "orders" /\ clickCancelOrder
  \/ view = "orders" /\ handleCancelOrderDone
  \/ view = "customers" /\ getCustomersSettles
  \/ view = "customers" /\ saveCustomerSettles
  \/ view = "customers" /\ deleteCustomerSettles
  \/ view = "customers" /\ customersLoadDone
  \/ view = "customers" /\ customerOnSubmit
  \/ view = "customers" /\ customerOnSubmitDone
  \/ view = "customers" /\ editCustomer
  \/ view = "customers" /\ newCustomer
  \/ view = "customers" /\ openDeleteDialog
  \/ view = "customers" /\ closeDeleteDialog
  \/ view = "customers" /\ clickDeleteCustomer
  \/ view = "customers" /\ deleteCustomerDone

\* fetch settles for one request of the form.
catalogsSettle == (TransportFailure \/ ServerCatalogs) /\ catalogReq' # catalogReq
loadSettles == (TransportFailure \/ ServerGetOrder) /\ loadReq' # loadReq
saveSettles ==
  (TransportFailure \/ ServerCreateOrder \/ ServerUpdateOrder) /\ saveReq' # saveReq
confirmSettles == (TransportFailure \/ ServerConfirmOrder) /\ confirmReq' # confirmReq
\* fetch settles for the listOrders(inc) in flight, and loadOrders resumes
\* with it.
listSettles(inc) ==
  /\ ListTransportFailure \/ ServerListOrders
  /\ ListSent(inc) \in listReqs
  /\ ListSent(inc) \notin listReqs'
\* Every listOrders call that can be in flight: sent, rejected, or answered
\* with a list.
ListCalls ==
  UNION { { ListSent(inc), [ListSent(inc) EXCEPT !.st = "replied"] } \cup
          { [ListSent(inc) EXCEPT !.st = "replied", !.ok = TRUE, !.data = data] :
              data \in [OrderIds -> {"ABSENT", "DRAFT", "CONFIRMED", "CANCELLED"}] } :
          inc \in BOOLEAN }
\* The loadOrders awaiting the settled call r resumes.
listResumes(r) ==
  /\ r \in listReqs
  /\ r.st = "replied"
  /\ loadOrdersDone
  /\ listReqs' = listReqs \ {r}
cancelSettles == (ListTransportFailure \/ ServerCancelOrder) /\ cancelReq' # cancelReq

LiveFairness ==
  /\ WF_vars(catalogsSettle) /\ WF_vars(loadCatalogsDone)
  /\ WF_vars(loadSettles) /\ WF_vars(loadDone)
  /\ WF_vars(saveSettles) /\ WF_vars(onSubmitDone)
  /\ WF_vars(confirmSettles) /\ WF_vars(handleConfirmDone)
  /\ \A inc \in BOOLEAN : WF_vars(listSettles(inc))
  /\ \A r \in ListCalls : WF_vars(listResumes(r))
  /\ WF_vars(cancelSettles) /\ WF_vars(handleCancelOrderDone)
  /\ WF_vars(getCustomersSettles) /\ WF_vars(customersLoadDone)
  /\ WF_vars(saveCustomerSettles) /\ WF_vars(customerOnSubmitDone)
  /\ WF_vars(deleteCustomerSettles) /\ WF_vars(deleteCustomerDone)

SpecLive == LiveInit /\ [][LiveNext]_vars /\ LiveFairness

\* The step in which a handler takes the answer of its request.
FormTakes(k) == FormRequests[k].st = "replied" /\ FormRequests'[k] = NoReq
ListTakes(r) == r \in listReqs /\ r.st = "replied" /\ r \notin listReqs'
CustomerTakes(call, call2) == call.st = "replied" /\ call2 = NoCall

\* The step that takes the answer of a request of a view leaves that view's
\* loading false and, the request having failed, its error message
\* non-empty.
CompletionResetsLoading ==
  /\ \A k \in 1..4 :
       (mounted /\ FormTakes(k))
         => /\ loading' = FALSE
            /\ ~FormRequests[k].resp.ok => apiError' # ""
  /\ \A r \in listReqs :
       ListTakes(r)
         => /\ listLoading' = FALSE
            /\ ~r.ok => listError' # ""
  /\ (CustomerTakes(cvLoadReq, cvLoadReq') \/ CustomerTakes(cvSaveReq, cvSaveReq'))
       => cvLoading' = FALSE
  /\ (CustomerTakes(cvLoadReq, cvLoadReq') /\ ~cvLoadReq.ok) => cvError' # ""
  /\ (CustomerTakes(cvSaveReq, cvSaveReq') /\ ~cvSaveReq.ok) => cvError' # ""

\* C28: every request of the order form, of the orders list and of the
\* customer view that is in flight is eventually taken by its handler, and
\* the step that takes it sets the view's loading false, on success and on
\* failure, and after a failure leaves a non-empty error message; no view
\* on screen keeps its loading true for ever.
C28_EveryRequestCompletes ==
  /\ [][CompletionResetsLoading]_vars
  /\ \A k \in 1..4 : []<>~InFlight(FormRequests[k])
  /\ \A r \in ListCalls : []<>(r \notin listReqs)
  /\ []<>(cancelReq.st = "none")
  /\ []<>(cvLoadReq.st = "none")
  /\ []<>(cvSaveReq.st = "none")
  /\ []<>(cvDeleteReq.st = "none")
  /\ []<>(~mounted \/ ~loading)
  /\ []<>~listLoading
  /\ []<>~cvLoading

\* The customer view after a save that failed: the error of request() is
\* shown and the form is enabled again.
C28_Witness ==
  /\ cvSaveReq = NoCall
  /\ cvLoadReq = NoCall
  /\ cvError = "Error inesperado"
  /\ ~cvLoading

====
